---- MODULE Spec2Model ----
(***************************************************************************)
(* Placement-eligibility data-access layer: DatabaseManager (database.py), *)
(* PlacementInsights (sql_queries.py) and the four-table store they read.  *)
(*                                                                         *)
(* Numbers with one decimal (ROUND(x, 1)) are kept in tenths: 767 is 76.7. *)
(* Columns that no predicate, aggregate or ordering reads (name, age,      *)
(* gender, email, phone, ...) are carried by their student_id.             *)
(***************************************************************************)
EXTENDS Integers, Sequences, FiniteSets, TLC

VARIABLES
    students,     \* table students
    programming,  \* table programming
    soft_skills,  \* table soft_skills
    placements,   \* table placements
    store,        \* "ok" | "no_tables" | "unreachable": what sqlite3.connect(db_path) finds
    pc,           \* "idle" | "connected": position of the one (synchronous) caller
    call,         \* the operation in progress or last completed, with its arguments
    open_conns,   \* connections opened by get_connection and not yet closed
    result,       \* what the last completed operation returned
    raised,       \* the last completed operation let an exception reach its caller
    log,          \* ERROR records the last operation wrote to the logger
    cache,        \* st.cache_data of the app process: function name -> value returned
    executed      \* the store operations the current run of the app's main() has executed

vars == <<students, programming, soft_skills, placements, store, pc, call,
          open_conns, result, raised, log, cache, executed>>

tables == <<students, programming, soft_skills, placements>>

\* the state of the Streamlit app, which DatabaseManager, PlacementInsights
\* and the generator do not touch
session == <<cache, executed>>

NoSession == cache = <<>> /\ executed = <<>>

-----------------------------------------------------------------------------
(* Bounds of the model *)

MaxStudents == 2
MaxLimit == 2

-----------------------------------------------------------------------------
(* SQL NULL.  Every stored number is >= 0, so NULL sorts below all of them, *)
(* as SQLite orders NULL before any value (last under DESC).                *)

NULL == -1
NoText == "NULL"

-----------------------------------------------------------------------------
(* The dataset, as one run of the generator on a new store leaves it: one  *)
(* soft_skills and one placements row per student.  The programming rows   *)
(* of a student are zero or more: the schema lets a student have none, and *)
(* the queries use LEFT JOIN for that case.                                *)

Py(n, score) == [language |-> "Python", problems_solved |-> n, latest_project_score |-> score]
Sql(n, score) == [language |-> "SQL", problems_solved |-> n, latest_project_score |-> score]

BaseProfile ==
    [course_batch |-> "DS_2023_A", city |-> "Mumbai",
     placement_status |-> "Ready", mock_interview_score |-> 80,
     internships_completed |-> 2, company_name |-> NoText,
     placement_package |-> NULL,
     skills |-> <<80, 70, 90, 60, 75, 85>>,
     progs |-> <<Py(40, 70)>>]

\* The base student and the students that differ from it in one respect.
Profiles ==
    { BaseProfile,
      [BaseProfile EXCEPT !.course_batch = "DS_2024_A"],
      [BaseProfile EXCEPT !.city = "Delhi"],
      [BaseProfile EXCEPT !.placement_status = "Not Ready"],
      [BaseProfile EXCEPT !.placement_status = "In Progress"],
      [BaseProfile EXCEPT !.placement_status = "Placed",
                          !.company_name = "TCS", !.placement_package = 400000],
      [BaseProfile EXCEPT !.mock_interview_score = 45],
      [BaseProfile EXCEPT !.internships_completed = 0],
      [BaseProfile EXCEPT !.skills = <<50, 50, 50, 50, 50, 50>>],
      [BaseProfile EXCEPT !.skills = <<80, 70, 90, 60, 75, 84>>],
      [BaseProfile EXCEPT !.progs = <<>>],
      [BaseProfile EXCEPT !.progs = <<Py(20, 70)>>],
      [BaseProfile EXCEPT !.progs = <<Sql(40, 70)>>],
      [BaseProfile EXCEPT !.progs = <<Py(40, 50)>>],
      [BaseProfile EXCEPT !.progs = <<Py(40, 50), Sql(20, 70)>>] }

Datasets == UNION { [1..n -> Profiles] : n \in 0..MaxStudents }

MaxLanguages == 3

StudentsOf(d) ==
    { [student_id |-> i, course_batch |-> d[i].course_batch, city |-> d[i].city]
      : i \in DOMAIN d }

ProgrammingOf(d) ==
    UNION { { [programming_id |-> (i - 1) * MaxLanguages + j, student_id |-> i,
               language |-> d[i].progs[j].language,
               problems_solved |-> d[i].progs[j].problems_solved,
               latest_project_score |-> d[i].progs[j].latest_project_score]
              : j \in DOMAIN d[i].progs } : i \in DOMAIN d }

SoftSkillsOf(d) ==
    { [soft_skill_id |-> i, student_id |-> i,
       communication |-> d[i].skills[1], teamwork |-> d[i].skills[2],
       presentation |-> d[i].skills[3], leadership |-> d[i].skills[4],
       critical_thinking |-> d[i].skills[5],
       interpersonal_skills |-> d[i].skills[6]] : i \in DOMAIN d }

PlacementsOf(d) ==
    { [placement_id |-> i, student_id |-> i,
       mock_interview_score |-> d[i].mock_interview_score,
       internships_completed |-> d[i].internships_completed,
       placement_status |-> d[i].placement_status,
       company_name |-> d[i].company_name,
       placement_package |-> d[i].placement_package] : i \in DOMAIN d }

-----------------------------------------------------------------------------
(* Arithmetic of the queries *)

RECURSIVE SumOver(_, _)
SumOver(S, f) ==
    IF S = {} THEN 0
    ELSE LET x == CHOOSE y \in S : TRUE IN f[x] + SumOver(S \ {x}, f)

\* ROUND(num / den, 1) in tenths, for num >= 0 and den > 0.
Round1(num, den) == (20 * num + den) \div (2 * den)

\* MAX(col): NULL when no row has a value.
MaxOf(S) ==
    IF S \ {NULL} = {} THEN NULL
    ELSE CHOOSE m \in S \ {NULL} : \A x \in S \ {NULL} : x <= m

SoftSum(ss) ==
    ss.communication + ss.teamwork + ss.presentation + ss.leadership
    + ss.critical_thinking + ss.interpersonal_skills

\* ORDER BY: every arrangement of the rows in which each row may precede all
\* the rows after it, before being the pairs <<a, b>> of rows such that the
\* ORDER BY keys let a come before b; SQL leaves the order of rows with equal
\* keys undefined.
Orderings(rows, before) ==
    { q \in [1..Cardinality(rows) -> rows] :
        /\ \A i, j \in DOMAIN q : i # j => q[i] # q[j]
        /\ \A i, j \in DOMAIN q : i < j => <<q[i], q[j]>> \in before }

\* LIMIT n + 1
LimitOneMore(q, n) == SubSeq(q, 1, IF n + 1 < Len(q) THEN n + 1 ELSE Len(q))

\* LIMIT n
Limit(q, n) == SubSeq(q, 1, IF n < Len(q) THEN n ELSE Len(q))

-----------------------------------------------------------------------------
(* DatabaseManager.get_eligible_students *)

NullProg ==
    [programming_id |-> NULL, student_id |-> NULL, language |-> NoText,
     problems_solved |-> NULL, latest_project_score |-> NULL]

\* JOIN programming prog ON s.student_id = prog.student_id
InnerJoinProgramming(s) == { g \in programming : g.student_id = s.student_id }

\* LEFT JOIN programming prog ON s.student_id = prog.student_id
LeftJoinProgramming(s) ==
    IF \E g \in programming : g.student_id = s.student_id
    THEN { g \in programming : g.student_id = s.student_id }
    ELSE { NullProg }

\* FROM students s JOIN placements p JOIN soft_skills ss LEFT JOIN programming prog
JoinedRows ==
    UNION { { [s |-> s, p |-> p, ss |-> k, prog |-> g] :
                p \in { x \in placements : x.student_id = s.student_id },
                k \in { x \in soft_skills : x.student_id = s.student_id },
                g \in LeftJoinProgramming(s) } : s \in students }

NumericKeys == {"min_problems_solved", "min_project_score", "min_soft_skills_avg",
                "min_mock_interview", "min_internships"}
TextKeys == {"programming_language", "course_batch", "city"}

\* Python truth of a criterion's value; None is NULL for a number, NoText for a
\* text and the type NoneType for a status
Truthy(k, v) ==
    IF k \in NumericKeys THEN v # 0 /\ v # NULL
    ELSE IF k \in TextKeys THEN v # "" /\ v # NoText
    ELSE IF v.type = "str" THEN v.value # ""
    ELSE IF v.type = "list" THEN v.value # <<>>
    ELSE FALSE

\* the key is in the mapping, whatever its value
GetPresent(criteria, k) == k \in DOMAIN criteria

\* criteria.get(k)
Get(criteria, k) == k \in DOMAIN criteria /\ Truthy(k, criteria[k])

\* without the isinstance branch: a string is read character by character,
\* and no character is a status
StatusListByCharacter(v) == IF v.type = "str" THEN <<>> ELSE v.value

\* isinstance(status_list, str) -> [status_list]
StatusList(v) == IF v.type = "str" THEN <<v.value>> ELSE v.value

\* the conditions appended to WHERE 1=1, with the threshold on problems
\* solved met by any record of the student instead of the joined one
WhereAnyRecord(r, criteria) ==
    /\ Get(criteria, "min_problems_solved") =>
          \E g \in programming :
              /\ g.student_id = r.s.student_id
              /\ g.problems_solved >= criteria["min_problems_solved"]
    /\ Get(criteria, "min_soft_skills_avg") =>
          SoftSum(r.ss) >= 6 * criteria["min_soft_skills_avg"]
    /\ Get(criteria, "min_mock_interview") =>
          r.p.mock_interview_score >= criteria["min_mock_interview"]
    /\ Get(criteria, "min_internships") =>
          r.p.internships_completed >= criteria["min_internships"]
    /\ Get(criteria, "programming_language") =>
          r.prog.language = criteria["programming_language"]
    /\ Get(criteria, "placement_status") =>
          \E i \in DOMAIN StatusList(criteria["placement_status"]) :
              r.p.placement_status = StatusList(criteria["placement_status"])[i]
    /\ Get(criteria, "course_batch") => r.s.course_batch = criteria["course_batch"]
    /\ Get(criteria, "city") => r.s.city = criteria["city"]

\* the conditions appended to WHERE 1=1
Where(r, criteria) ==
    /\ Get(criteria, "min_problems_solved") =>
          /\ r.prog.problems_solved # NULL
          /\ r.prog.problems_solved >= criteria["min_problems_solved"]
    /\ Get(criteria, "min_soft_skills_avg") =>
          SoftSum(r.ss) >= 6 * criteria["min_soft_skills_avg"]
    /\ Get(criteria, "min_mock_interview") =>
          r.p.mock_interview_score >= criteria["min_mock_interview"]
    /\ Get(criteria, "min_internships") =>
          r.p.internships_completed >= criteria["min_internships"]
    /\ Get(criteria, "programming_language") =>
          r.prog.language = criteria["programming_language"]
    /\ Get(criteria, "placement_status") =>
          \E i \in DOMAIN StatusList(criteria["placement_status"]) :
              r.p.placement_status = StatusList(criteria["placement_status"])[i]
    /\ Get(criteria, "course_batch") => r.s.course_batch = criteria["course_batch"]
    /\ Get(criteria, "city") => r.s.city = criteria["city"]

\* GROUP BY s.student_id, ..., p.placement_status, ..., p.placement_package
EligibleGroupKey(r) ==
    <<r.s.student_id, r.s.course_batch, r.s.city, r.p.placement_status,
      r.p.mock_interview_score, r.p.internships_completed, r.p.company_name,
      r.p.placement_package>>

\* GROUP BY: the rows with the same key, key being the function from a row to
\* the value of its GROUP BY columns
GroupsBy(rows, key) ==
    { { r \in rows : key[r] = k } : k \in { key[r] : r \in rows } }

\* the SELECT list with SUM in place of AVG in avg_soft_skills
EligibleRowSumOfSkills(G) ==
    LET r == CHOOSE x \in G : TRUE
    IN [student_id |-> r.s.student_id,
        course_batch |-> r.s.course_batch,
        city |-> r.s.city,
        placement_status |-> r.p.placement_status,
        mock_interview_score |-> r.p.mock_interview_score,
        internships_completed |-> r.p.internships_completed,
        company_name |-> r.p.company_name,
        placement_package |-> r.p.placement_package,
        avg_soft_skills |-> Round1(SumOver(G, [x \in G |-> SoftSum(x.ss)]), 6),
        programming_languages |-> { x.prog.language : x \in G } \ {NoText},
        max_problems_solved |-> MaxOf({ x.prog.problems_solved : x \in G }),
        best_project_score |-> MaxOf({ x.prog.latest_project_score : x \in G })]

\* the SELECT list over one group
EligibleRow(G) ==
    LET r == CHOOSE x \in G : TRUE
    IN [student_id |-> r.s.student_id,
        course_batch |-> r.s.course_batch,
        city |-> r.s.city,
        placement_status |-> r.p.placement_status,
        mock_interview_score |-> r.p.mock_interview_score,
        internships_completed |-> r.p.internships_completed,
        company_name |-> r.p.company_name,
        placement_package |-> r.p.placement_package,
        avg_soft_skills |->
            Round1(SumOver(G, [x \in G |-> SoftSum(x.ss)]), 6 * Cardinality(G)),
        programming_languages |-> { x.prog.language : x \in G } \ {NoText},
        max_problems_solved |-> MaxOf({ x.prog.problems_solved : x \in G }),
        best_project_score |-> MaxOf({ x.prog.latest_project_score : x \in G })]

\* ORDER BY avg_soft_skills DESC, max_problems_solved DESC
EligibleOrderTwoKeys(a, b) ==
    \/ a.avg_soft_skills > b.avg_soft_skills
    \/ /\ a.avg_soft_skills = b.avg_soft_skills
       /\ a.max_problems_solved >= b.max_problems_solved

\* ORDER BY avg_soft_skills DESC, max_problems_solved DESC, p.mock_interview_score DESC
EligibleOrder(a, b) ==
    \/ a.avg_soft_skills > b.avg_soft_skills
    \/ /\ a.avg_soft_skills = b.avg_soft_skills
       /\ a.max_problems_solved > b.max_problems_solved
    \/ /\ a.avg_soft_skills = b.avg_soft_skills
       /\ a.max_problems_solved = b.max_problems_solved
       /\ a.mock_interview_score >= b.mock_interview_score

EligibleStudents(criteria) ==
    LET J == { r \in JoinedRows : Where(r, criteria) }
        rows == { EligibleRow(G) :
                    G \in GroupsBy(J, [r \in J |-> EligibleGroupKey(r)]) }
    IN Orderings(rows, { x \in rows \X rows : EligibleOrder(x[1], x[2]) })

-----------------------------------------------------------------------------
(* PlacementInsights.query_1_top_placement_ready_students *)

\* WHERE p.placement_status IN ('Ready', 'Placed')
TopReadyWhere(r) == r.p.placement_status \in {"Ready", "Placed"}

\* GROUP BY s.student_id, ..., p.internships_completed, ss.communication, ...
TopReadyGroupKey(r) ==
    <<r.s.student_id, r.s.course_batch, r.s.city, r.p.placement_status,
      r.p.mock_interview_score, r.p.internships_completed,
      r.ss.communication, r.ss.teamwork, r.ss.presentation, r.ss.leadership,
      r.ss.critical_thinking, r.ss.interpersonal_skills>>

\* ROUND(interview * 0.4 + soft_sum / 6.0 * 0.3 + MAX(project) * 0.3, 1), which is
\* (8 * interview + soft_sum + 6 * project) / 20; NULL when MAX(project) is NULL.
OverallScore(interview, soft_sum, project) ==
    IF project = NULL THEN NULL
    ELSE Round1(8 * interview + soft_sum + 6 * project, 20)

\* the SELECT list over one group; s.name is carried by student_id
TopReadyRow(G) ==
    LET r == CHOOSE x \in G : TRUE
    IN [student_id |-> r.s.student_id,
        course_batch |-> r.s.course_batch,
        city |-> r.s.city,
        placement_status |-> r.p.placement_status,
        mock_interview_score |-> r.p.mock_interview_score,
        internships_completed |-> r.p.internships_completed,
        avg_soft_skills |->
            Round1(SumOver(G, [x \in G |-> SoftSum(x.ss)]), 6 * Cardinality(G)),
        max_problems_solved |-> MaxOf({ x.prog.problems_solved : x \in G }),
        best_project_score |-> MaxOf({ x.prog.latest_project_score : x \in G }),
        overall_score |->
            OverallScore(r.p.mock_interview_score, SoftSum(r.ss),
                         MaxOf({ x.prog.latest_project_score : x \in G }))]

\* ORDER BY overall_score DESC
TopReadyOrder(a, b) == a.overall_score >= b.overall_score

\* ... LIMIT ?
TopPlacementReady(limit) ==
    LET J == { r \in JoinedRows : TopReadyWhere(r) }
        rows == { TopReadyRow(G) :
                    G \in GroupsBy(J, [r \in J |-> TopReadyGroupKey(r)]) }
    IN { Limit(q, limit) :
           q \in Orderings(rows, { x \in rows \X rows : TopReadyOrder(x[1], x[2]) }) }

-----------------------------------------------------------------------------
(* The other DatabaseManager operations *)

\* ORDER BY on a text column: the model's text values in ascending order
Collation ==
    <<"DS_2023_A", "DS_2024_A", "Delhi", "In Progress", "Microsoft", "Mumbai",
      "Not Ready",
      "Placed", "Python", "R", "Ready", "SQL", "TCS", "Zoho">>

\* the distinct values in descending order
SortedDistinctDescending(S) ==
    LET asc == SelectSeq(Collation, LAMBDA x : x \in S)
    IN [i \in DOMAIN asc |-> asc[Len(asc) + 1 - i]]

\* SELECT DISTINCT col ... ORDER BY col
SortedDistinct(S) == SelectSeq(Collation, LAMBDA x : x \in S)

\* Python round(num / den, 1) in tenths: to the nearest, an exact half to even
RoundPy1(num, den) ==
    LET q == (10 * num) \div den
        r == (10 * num) % den
    IN IF 2 * r > den \/ (2 * r = den /\ q % 2 = 1) THEN q + 1 ELSE q

RequiredTables == {"students", "programming", "soft_skills", "placements"}

\* SELECT name FROM sqlite_master WHERE type='table' AND name IN (?, ?, ?, ?)
ExistingTables == IF store = "ok" THEN RequiredTables ELSE {}

\* test_connection: body of the with block
TestConnection ==
    IF Cardinality(ExistingTables) = 4
    THEN [exc |-> "none", log |-> <<>>, value |-> [kind |-> "bool", ok |-> TRUE]]
    ELSE [exc |-> "none", log |-> <<"Missing tables">>,
          value |-> [kind |-> "bool", ok |-> FALSE]]

\* get_database_summary: body of the with block
DatabaseSummary ==
    IF programming = {}
    THEN \* AVG over no rows is None, and round(None, 1) raises
         [exc |-> "TypeError", log |-> <<>>, value |-> [kind |-> "none"]]
    ELSE [exc |-> "none", log |-> <<>>,
          value |->
            [kind |-> "mapping",
             map |->
               [total_students |-> Cardinality(students),
                programming_records |-> Cardinality(programming),
                placement_distribution |->
                    [st \in { p.placement_status : p \in placements } |->
                        Cardinality({ p \in placements : p.placement_status = st })],
                avg_problems_solved |->
                    RoundPy1(SumOver(programming,
                                     [g \in programming |-> g.problems_solved]),
                             Cardinality(programming)),
                avg_project_score |->
                    RoundPy1(SumOver(programming,
                                     [g \in programming |-> g.latest_project_score]),
                             Cardinality(programming))]]]

\* get_filter_options: body of the with block
FilterOptions ==
    [exc |-> "none", log |-> <<>>,
     value |->
       [kind |-> "mapping",
        map |->
          [course_batches |-> SortedDistinct({ s.course_batch : s \in students }),
           cities |-> SortedDistinct({ s.city : s \in students }),
           programming_languages |->
               SortedDistinct({ g.language : g \in programming }),
           placement_statuses |->
               SortedDistinct({ p.placement_status : p \in placements }),
           companies |->
               SortedDistinct({ p.company_name : p \in placements } \ {NoText})]]]

\* get_student_details with a missing soft_skills or placements row read as
\* None instead of dict(None) raising
StudentDetailsNoneForMissingRow(student_id) ==
    LET ss == { s \in students : s.student_id = student_id }
        ks == { k \in soft_skills : k.student_id = student_id }
        ps == { p \in placements : p.student_id = student_id }
    IN IF ss = {}
       THEN { [exc |-> "TypeError", log |-> <<>>, value |-> [kind |-> "none"]] }
       ELSE { [exc |-> "none", log |-> <<>>,
               value |->
                 [kind |-> "mapping",
                  map |-> [student_id |-> s.student_id,
                           course_batch |-> s.course_batch,
                           city |-> s.city,
                           programming |->
                               { g \in programming : g.student_id = student_id },
                           soft_skills |-> k,
                           placement |-> p]]]
              : s \in ss,
                k \in IF ks = {} THEN { [kind |-> "none"] } ELSE ks,
                p \in IF ps = {} THEN { [kind |-> "none"] } ELSE ps }

\* get_student_details: body of the with block; dict(cursor.fetchone()) raises
\* TypeError when no row matches, and fetchone() takes one of the matching rows
StudentDetails(student_id) ==
    LET ss == { s \in students : s.student_id = student_id }
        ks == { k \in soft_skills : k.student_id = student_id }
        ps == { p \in placements : p.student_id = student_id }
    IN IF ss = {} \/ ks = {} \/ ps = {}
       THEN { [exc |-> "TypeError", log |-> <<>>, value |-> [kind |-> "none"]] }
       ELSE { [exc |-> "none", log |-> <<>>,
               value |->
                 [kind |-> "mapping",
                  map |-> [student_id |-> s.student_id,
                           course_batch |-> s.course_batch,
                           city |-> s.city,
                           programming |->
                               { g \in programming : g.student_id = student_id },
                           soft_skills |-> k,
                           placement |-> p]]] : s \in ss, k \in ks, p \in ps }

\* AVG(col) rounded to one decimal, over the rows of G whose value f[x] is not
\* NULL; NULL when there is none
AvgRound1(G, f) ==
    LET V == { x \in G : f[x] # NULL }
    IN IF V = {} THEN NULL
       ELSE Round1(SumOver(V, [x \in V |-> f[x]]), Cardinality(V))

\* ROUND(AVG(col), 0)
AvgRound0(G, f) ==
    LET V == { x \in G : f[x] # NULL }
    IN IF V = {} THEN NULL
       ELSE (2 * SumOver(V, [x \in V |-> f[x]]) + Cardinality(V))
            \div (2 * Cardinality(V))

MinOf(S) ==
    IF S \ {NULL} = {} THEN NULL
    ELSE CHOOSE m \in S \ {NULL} : \A x \in S \ {NULL} : m <= x

\* get_placement_analytics, first query: GROUP BY placement_status
AnalyticsDistribution ==
    { [placement_status |-> st,
       count |-> Cardinality({ p \in placements : p.placement_status = st }),
       percentage |->
           Round1(100 * Cardinality({ p \in placements : p.placement_status = st }),
                  Cardinality(placements))]
      : st \in { p.placement_status : p \in placements } }

\* get_placement_analytics, second query: ... ORDER BY avg_package DESC
AnalyticsCompanyOrder(a, b) == a.avg_package >= b.avg_package

AnalyticsCompanies ==
    LET placed == { p \in placements :
                      p.placement_status = "Placed" /\ p.company_name # NoText }
        rows ==
         { LET G == { p \in placed : p.company_name = c }
           IN [company_name |-> c,
               students_placed |-> Cardinality(G),
               avg_package |-> AvgRound0(G, [x \in G |-> x.placement_package]),
               min_package |-> MinOf({ x.placement_package : x \in G }),
               max_package |-> MaxOf({ x.placement_package : x \in G })]
           : c \in { p.company_name : p \in placed } }
    IN Orderings(rows,
                 { x \in rows \X rows : AnalyticsCompanyOrder(x[1], x[2]) })

\* get_placement_analytics, third query:
\* FROM placements p JOIN soft_skills ss LEFT JOIN programming prog GROUP BY status
AnalyticsSkills ==
    LET J == UNION { { [p |-> p, ss |-> k, prog |-> g] :
                         k \in { x \in soft_skills : x.student_id = p.student_id },
                         g \in LeftJoinProgramming(p) } : p \in placements }
    IN { LET G == { r \in J : r.p.placement_status = st }
         IN [placement_status |-> st,
             avg_communication |-> AvgRound1(G, [x \in G |-> x.ss.communication]),
             avg_teamwork |-> AvgRound1(G, [x \in G |-> x.ss.teamwork]),
             avg_presentation |-> AvgRound1(G, [x \in G |-> x.ss.presentation]),
             avg_leadership |-> AvgRound1(G, [x \in G |-> x.ss.leadership]),
             avg_mock_interview |->
                 AvgRound1(G, [x \in G |-> x.p.mock_interview_score]),
             avg_problems_solved |->
                 AvgRound1(G, [x \in G |-> x.prog.problems_solved])]
         : st \in { r.p.placement_status : r \in J } }

\* get_placement_analytics: body of the with block
PlacementAnalytics ==
    { [exc |-> "none", log |-> <<>>,
       value |->
         [kind |-> "mapping",
          map |-> [placement_distribution |-> AnalyticsDistribution,
                   company_packages |-> q,
                   skills_by_placement_status |-> AnalyticsSkills]]]
      : q \in AnalyticsCompanies }

-----------------------------------------------------------------------------
(* PlacementInsights queries 2 to 10.  The averages of columns the model  *)
(* does not store (assessments_completed, mini_projects,                  *)
(* interview_rounds_cleared) are left out of the rows.                    *)

\* FROM students s JOIN placements p JOIN soft_skills ss
CoreRows ==
    UNION { { [s |-> s, p |-> p, ss |-> k] :
                p \in { x \in placements : x.student_id = s.student_id },
                k \in { x \in soft_skills : x.student_id = s.student_id } }
            : s \in students }

\* SUM(CASE WHEN p.placement_status = 'Placed' THEN 1 ELSE 0 END)
PlacedIn(G) == { r \in G : r.p.placement_status = "Placed" }

\* CASE WHEN p.placement_status = 'Placed' THEN p.placement_package END
PlacedPackage(r) ==
    IF r.p.placement_status = "Placed" THEN r.p.placement_package ELSE NULL

\* ROUND(AVG((ss.communication + ... + ss.interpersonal_skills) / 6.0), 1)
AvgSoftSkills(G) == Round1(SumOver(G, [x \in G |-> SoftSum(x.ss)]), 6 * Cardinality(G))

\* ROUND(placed * 100.0 / total, 1); a division by zero is NULL
RatePercent(placed, total) == IF total = 0 THEN NULL ELSE Round1(100 * placed, total)

\* ORDER BY a DESC, b DESC on the pairs <<a, b>>
Desc2(x, y) == x[1] > y[1] \/ (x[1] = y[1] /\ x[2] >= y[2])

\* query 2: FROM students s LEFT JOIN programming prog GROUP BY s.course_batch
BatchProgrammingRow(G) ==
    LET r == CHOOSE x \in G : TRUE
    IN [course_batch |-> r.s.course_batch,
        total_students |-> Cardinality({ x.s.student_id : x \in G }),
        total_programming_records |->
            Cardinality({ x.prog.programming_id : x \in G } \ {NULL}),
        avg_problems_solved |-> AvgRound1(G, [x \in G |-> x.prog.problems_solved]),
        avg_project_score |->
            AvgRound1(G, [x \in G |-> x.prog.latest_project_score]),
        max_problems_solved |-> MaxOf({ x.prog.problems_solved : x \in G }),
        min_problems_solved |-> MinOf({ x.prog.problems_solved : x \in G })]

\* ORDER BY avg_problems_solved DESC
BatchProgrammingOrder(a, b) == a.avg_problems_solved >= b.avg_problems_solved

ProgrammingPerformanceByBatch ==
    LET J == UNION { { [s |-> s, prog |-> g] : g \in LeftJoinProgramming(s) }
                     : s \in students }
        rows == { BatchProgrammingRow(G) :
                    G \in GroupsBy(J, [r \in J |-> r.s.course_batch]) }
    IN Orderings(rows,
                 { x \in rows \X rows : BatchProgrammingOrder(x[1], x[2]) })

\* query 3: FROM students s JOIN soft_skills ss GROUP BY s.course_batch
SoftSkillsRow(G) ==
    LET r == CHOOSE x \in G : TRUE
    IN [course_batch |-> r.s.course_batch,
        student_count |-> Cardinality(G),
        avg_communication |-> AvgRound1(G, [x \in G |-> x.ss.communication]),
        avg_teamwork |-> AvgRound1(G, [x \in G |-> x.ss.teamwork]),
        avg_presentation |-> AvgRound1(G, [x \in G |-> x.ss.presentation]),
        avg_leadership |-> AvgRound1(G, [x \in G |-> x.ss.leadership]),
        avg_critical_thinking |->
            AvgRound1(G, [x \in G |-> x.ss.critical_thinking]),
        avg_interpersonal |->
            AvgRound1(G, [x \in G |-> x.ss.interpersonal_skills]),
        overall_soft_skills |-> AvgSoftSkills(G)]

\* ORDER BY overall_soft_skills DESC
SoftSkillsOrder(a, b) == a.overall_soft_skills >= b.overall_soft_skills

SoftSkillsDistribution ==
    LET J == UNION { { [s |-> s, ss |-> k] :
                         k \in { x \in soft_skills : x.student_id = s.student_id } }
                     : s \in students }
        rows == { SoftSkillsRow(G) :
                    G \in GroupsBy(J, [r \in J |-> r.s.course_batch]) }
    IN Orderings(rows, { x \in rows \X rows : SoftSkillsOrder(x[1], x[2]) })

\* query 4: HAVING COUNT(*) >= 5
MinCityStudents == 5

\* FROM students s JOIN placements p GROUP BY s.city
LocationRow(G) ==
    LET r == CHOOSE x \in G : TRUE
    IN [city |-> r.s.city,
        total_students |-> Cardinality(G),
        placed_students |-> Cardinality(PlacedIn(G)),
        placement_rate_percent |->
            RatePercent(Cardinality(PlacedIn(G)), Cardinality(G)),
        avg_package |-> AvgRound0(G, [x \in G |-> PlacedPackage(x)]),
        min_package |-> MinOf({ PlacedPackage(x) : x \in G }),
        max_package |-> MaxOf({ PlacedPackage(x) : x \in G }),
        avg_mock_interview_score |->
            AvgRound1(G, [x \in G |-> x.p.mock_interview_score])]

\* ORDER BY placement_rate_percent DESC, avg_package DESC
LocationOrder(a, b) ==
    Desc2(<<a.placement_rate_percent, a.avg_package>>,
          <<b.placement_rate_percent, b.avg_package>>)

\* the query without its HAVING clause
PlacementSuccessInEveryCity ==
    LET J == UNION { { [s |-> s, p |-> p] :
                         p \in { x \in placements : x.student_id = s.student_id } }
                     : s \in students }
        rows == { LocationRow(G) : G \in GroupsBy(J, [r \in J |-> r.s.city]) }
    IN Orderings(rows, { x \in rows \X rows : LocationOrder(x[1], x[2]) })

PlacementSuccessByLocation ==
    LET J == UNION { { [s |-> s, p |-> p] :
                         p \in { x \in placements : x.student_id = s.student_id } }
                     : s \in students }
        rows == { LocationRow(G) :
                    G \in { H \in GroupsBy(J, [r \in J |-> r.s.city]) :
                              Cardinality(H) >= MinCityStudents } }
    IN Orderings(rows, { x \in rows \X rows : LocationOrder(x[1], x[2]) })

\* query 5: WHERE p.placement_status = 'Placed' AND p.company_name IS NOT NULL
\*          GROUP BY p.company_name
CompanyRow(G) ==
    LET r == CHOOSE x \in G : TRUE
    IN [company_name |-> r.p.company_name,
        students_hired |-> Cardinality(G),
        avg_package |-> AvgRound0(G, [x \in G |-> x.p.placement_package]),
        min_package |-> MinOf({ x.p.placement_package : x \in G }),
        max_package |-> MaxOf({ x.p.placement_package : x \in G }),
        avg_interview_score_of_hired |->
            AvgRound1(G, [x \in G |-> x.p.mock_interview_score]),
        avg_soft_skills_hired |-> AvgSoftSkills(G)]

\* ORDER BY students_hired DESC, avg_package DESC
CompanyOrder(a, b) ==
    Desc2(<<a.students_hired, a.avg_package>>, <<b.students_hired, b.avg_package>>)

CompanyWiseHiring ==
    LET J == { r \in CoreRows : /\ r.p.placement_status = "Placed"
                                /\ r.p.company_name # NoText }
        rows == { CompanyRow(G) :
                    G \in GroupsBy(J, [r \in J |-> r.p.company_name]) }
    IN Orderings(rows, { x \in rows \X rows : CompanyOrder(x[1], x[2]) })

\* query 6: FROM programming prog JOIN students s JOIN placements p
\*          GROUP BY prog.language
LanguageRow(G) ==
    LET r == CHOOSE x \in G : TRUE
        total == Cardinality({ x.s.student_id : x \in G })
    IN [language |-> r.prog.language,
        total_students |-> total,
        placed_students |-> Cardinality(PlacedIn(G)),
        placement_rate_percent |-> RatePercent(Cardinality(PlacedIn(G)), total),
        avg_problems_solved |-> AvgRound1(G, [x \in G |-> x.prog.problems_solved]),
        avg_project_score |->
            AvgRound1(G, [x \in G |-> x.prog.latest_project_score]),
        avg_package_for_placed |-> AvgRound0(G, [x \in G |-> PlacedPackage(x)])]

\* ORDER BY placement_rate_percent DESC, avg_package_for_placed DESC
LanguageOrder(a, b) ==
    Desc2(<<a.placement_rate_percent, a.avg_package_for_placed>>,
          <<b.placement_rate_percent, b.avg_package_for_placed>>)

LanguageImpact ==
    LET J == UNION { { [prog |-> g, s |-> s, p |-> p] :
                         s \in { x \in students : x.student_id = g.student_id },
                         p \in { x \in placements : x.student_id = g.student_id } }
                     : g \in programming }
        rows == { LanguageRow(G) :
                    G \in GroupsBy(J, [r \in J |-> r.prog.language]) }
    IN Orderings(rows, { x \in rows \X rows : LanguageOrder(x[1], x[2]) })

\* query 7: GROUP BY p.internships_completed
InternshipRow(G) ==
    LET r == CHOOSE x \in G : TRUE
    IN [internships_completed |-> r.p.internships_completed,
        student_count |-> Cardinality(G),
        placed_count |-> Cardinality(PlacedIn(G)),
        placement_rate_percent |->
            RatePercent(Cardinality(PlacedIn(G)), Cardinality(G)),
        avg_mock_interview |-> AvgRound1(G, [x \in G |-> x.p.mock_interview_score]),
        avg_package |-> AvgRound0(G, [x \in G |-> PlacedPackage(x)]),
        avg_soft_skills |-> AvgSoftSkills(G)]

\* ORDER BY p.internships_completed
InternshipOrder(a, b) == a.internships_completed <= b.internships_completed

InternshipImpact ==
    LET J == CoreRows
        rows == { InternshipRow(G) :
                    G \in GroupsBy(J, [r \in J |-> r.p.internships_completed]) }
    IN Orderings(rows, { x \in rows \X rows : InternshipOrder(x[1], x[2]) })

\* query 8: WHERE p.placement_status IN ('Not Ready', 'In Progress')
NeedsImprovementWhere(r) == r.p.placement_status \in {"Not Ready", "In Progress"}

\* the CASE with its first two WHEN clauses exchanged
ImprovementAreaProblemsFirst(interview, max_problems, soft_sum, internships) ==
    IF max_problems # NULL /\ max_problems < 30 THEN "Programming Practice"
    ELSE IF interview < 50 THEN "Interview Skills"
    ELSE IF soft_sum < 6 * 60 THEN "Soft Skills"
    ELSE IF internships = 0 THEN "Practical Experience"
    ELSE "General Improvement"

\* CASE WHEN ... END as primary_improvement_area; a comparison with NULL is not
\* true, and soft_sum / 6.0 < 60 is soft_sum < 360
ImprovementArea(interview, max_problems, soft_sum, internships) ==
    IF interview < 50 THEN "Interview Skills"
    ELSE IF max_problems # NULL /\ max_problems < 30 THEN "Programming Practice"
    ELSE IF soft_sum < 6 * 60 THEN "Soft Skills"
    ELSE IF internships = 0 THEN "Practical Experience"
    ELSE "General Improvement"

\* the SELECT list over one group; s.name is carried by student_id
NeedsImprovementRow(G) ==
    LET r == CHOOSE x \in G : TRUE
    IN [student_id |-> r.s.student_id,
        course_batch |-> r.s.course_batch,
        city |-> r.s.city,
        placement_status |-> r.p.placement_status,
        mock_interview_score |-> r.p.mock_interview_score,
        internships_completed |-> r.p.internships_completed,
        avg_soft_skills |-> Round1(SoftSum(r.ss), 6),
        max_problems_solved |-> MaxOf({ x.prog.problems_solved : x \in G }),
        best_project_score |-> MaxOf({ x.prog.latest_project_score : x \in G }),
        primary_improvement_area |->
            ImprovementArea(r.p.mock_interview_score,
                            MaxOf({ x.prog.problems_solved : x \in G }),
                            SoftSum(r.ss), r.p.internships_completed)]

\* CASE p.placement_status WHEN 'In Progress' THEN 1 WHEN 'Not Ready' THEN 2 END
StatusRank(status) ==
    IF status = "In Progress" THEN 1 ELSE IF status = "Not Ready" THEN 2 ELSE NULL

\* ORDER BY p.mock_interview_score ASC alone
NeedsImprovementOrderByScore(a, b) ==
    a.mock_interview_score <= b.mock_interview_score

\* ORDER BY CASE ... END, p.mock_interview_score ASC
NeedsImprovementOrder(a, b) ==
    \/ StatusRank(a.placement_status) < StatusRank(b.placement_status)
    \/ /\ StatusRank(a.placement_status) = StatusRank(b.placement_status)
       /\ a.mock_interview_score <= b.mock_interview_score

\* GROUP BY s.student_id, ..., ss.interpersonal_skills: the columns of query 1
StudentsNeedingImprovement ==
    LET J == { r \in JoinedRows : NeedsImprovementWhere(r) }
        rows == { NeedsImprovementRow(G) :
                    G \in GroupsBy(J, [r \in J |-> TopReadyGroupKey(r)]) }
    IN Orderings(rows,
                 { x \in rows \X rows : NeedsImprovementOrder(x[1], x[2]) })

\* query 9: CASE WHEN p.placement_package >= 1000000 ... END as package_category
HighPackage == 1000000
MediumPackage == 500000

\* the CASE with > in place of >=
PackageCategoryAbove(package) ==
    IF package = NULL THEN "Not Placed"
    ELSE IF package > HighPackage THEN "High Package (10L+)"
    ELSE IF package > MediumPackage THEN "Medium Package (5-10L)"
    ELSE "Entry Package (<5L)"

PackageCategory(package) ==
    IF package = NULL THEN "Not Placed"
    ELSE IF package >= HighPackage THEN "High Package (10L+)"
    ELSE IF package >= MediumPackage THEN "Medium Package (5-10L)"
    ELSE "Entry Package (<5L)"

\* the SELECT list over one group
SkillsGapRow(G) ==
    LET r == CHOOSE x \in G : TRUE
    IN [package_category |-> PackageCategory(r.p.placement_package),
        student_count |-> Cardinality(G),
        avg_mock_interview |-> AvgRound1(G, [x \in G |-> x.p.mock_interview_score]),
        avg_communication |-> AvgRound1(G, [x \in G |-> x.ss.communication]),
        avg_teamwork |-> AvgRound1(G, [x \in G |-> x.ss.teamwork]),
        avg_presentation |-> AvgRound1(G, [x \in G |-> x.ss.presentation]),
        avg_leadership |-> AvgRound1(G, [x \in G |-> x.ss.leadership]),
        avg_critical_thinking |->
            AvgRound1(G, [x \in G |-> x.ss.critical_thinking]),
        avg_problems_solved |-> AvgRound1(G, [x \in G |-> x.prog.problems_solved]),
        avg_project_score |->
            AvgRound1(G, [x \in G |-> x.prog.latest_project_score])]

\* CASE package_category WHEN 'High Package (10L+)' THEN 1 ... END
CategoryRank(category) ==
    CASE category = "High Package (10L+)" -> 1
      [] category = "Medium Package (5-10L)" -> 2
      [] category = "Entry Package (<5L)" -> 3
      [] OTHER -> NULL

\* ORDER BY CASE ... END
SkillsGapOrder(a, b) ==
    CategoryRank(a.package_category) <= CategoryRank(b.package_category)

\* WHERE p.placement_status = 'Placed' GROUP BY package_category
SkillsGapAnalysis ==
    LET J == PlacedIn(JoinedRows)
        rows == { SkillsGapRow(G) :
                    G \in GroupsBy(J, [r \in J |->
                                          PackageCategory(r.p.placement_package)]) }
    IN Orderings(rows, { x \in rows \X rows : SkillsGapOrder(x[1], x[2]) })

\* query 10, first SELECT: one row of aggregates over the joined rows
OverallPerformance ==
    LET G == JoinedRows
        total == Cardinality({ x.s.student_id : x \in G })
        placed == Cardinality({ x.s.student_id : x \in PlacedIn(G) })
    IN [metric_category |-> "Overall Program Performance",
        total_students |-> total,
        placed_students |-> placed,
        overall_placement_rate |-> RatePercent(placed, total),
        avg_placement_package |-> AvgRound0(G, [x \in G |-> PlacedPackage(x)]),
        avg_mock_interview_score |->
            AvgRound1(G, [x \in G |-> x.p.mock_interview_score]),
        avg_soft_skills_score |-> IF G = {} THEN NULL ELSE AvgSoftSkills(G),
        avg_problems_solved |-> AvgRound1(G, [x \in G |-> x.prog.problems_solved]),
        avg_project_score |->
            AvgRound1(G, [x \in G |-> x.prog.latest_project_score]),
        total_hiring_companies |->
            Cardinality({ x.p.company_name : x \in G } \ {NoText})]

\* a row of the second and third SELECT: NULL in the eight middle columns
MetricRow(category, value) ==
    [metric_category |-> category,
     total_students |-> NULL, placed_students |-> NULL,
     overall_placement_rate |-> NULL, avg_placement_package |-> NULL,
     avg_mock_interview_score |-> NULL, avg_soft_skills_score |-> NULL,
     avg_problems_solved |-> NULL, avg_project_score |-> NULL,
     total_hiring_companies |-> value]

\* the batches that have the most placed students, whatever their size
BestBatchesByPlacedCount ==
    LET J == UNION { { [s |-> s, p |-> p] :
                         p \in { x \in placements : x.student_id = s.student_id } }
                     : s \in students }
        Of(b) == { r \in J : r.s.course_batch = b }
        batches == { r.s.course_batch : r \in J }
    IN IF batches = {} THEN { NoText }
       ELSE { b \in batches :
                \A c \in batches :
                    Cardinality(PlacedIn(Of(b))) >= Cardinality(PlacedIn(Of(c))) }

\* (SELECT s2.course_batch ... GROUP BY s2.course_batch
\*  ORDER BY SUM(CASE ... END) * 100.0 / COUNT(*) DESC LIMIT 1)
BestBatches ==
    LET J == UNION { { [s |-> s, p |-> p] :
                         p \in { x \in placements : x.student_id = s.student_id } }
                     : s \in students }
        Of(b) == { r \in J : r.s.course_batch = b }
        batches == { r.s.course_batch : r \in J }
    IN IF batches = {} THEN { NoText }
       ELSE { b \in batches :
                \A c \in batches :
                    Cardinality(PlacedIn(Of(b))) * Cardinality(Of(c))
                      >= Cardinality(PlacedIn(Of(c))) * Cardinality(Of(b)) }

\* (SELECT p3.company_name ... GROUP BY p3.company_name
\*  ORDER BY COUNT(*) DESC LIMIT 1)
TopCompanies ==
    LET placed == { p \in placements :
                      p.placement_status = "Placed" /\ p.company_name # NoText }
        Hired(c) == Cardinality({ p \in placed : p.company_name = c })
        companies == { p.company_name : p \in placed }
    IN IF companies = {} THEN { NoText }
       ELSE { c \in companies : \A d \in companies : Hired(c) >= Hired(d) }

\* ... UNION ALL ... UNION ALL ...: the three SELECTs in the order written
ProgramEffectiveness ==
    { <<OverallPerformance,
        MetricRow("Best Performing Batch", b),
        MetricRow("Top Hiring Company", c)>> : b \in BestBatches, c \in TopCompanies }

\* execute_custom_query called with a query of the caller's own: a well-formed
\* SELECT and a statement that does not parse
CustomQueries == {"SELECT * FROM students", "SELEC * FROM students"}

\* SELECT * FROM students: the rows in an order the statement does not fix
AllStudents == Orderings(students, students \X students)

\* the query text of each PlacementInsights method
InsightQueries ==
    [query_2_programming_performance_by_batch |-> ProgrammingPerformanceByBatch,
     query_3_soft_skills_distribution_analysis |-> SoftSkillsDistribution,
     query_4_placement_success_by_location |-> PlacementSuccessByLocation,
     query_5_company_wise_hiring_analysis |-> CompanyWiseHiring,
     query_6_programming_language_impact_on_placement |-> LanguageImpact,
     query_7_internship_impact_on_placement |-> InternshipImpact,
     query_8_students_needing_improvement |-> StudentsNeedingImprovement,
     query_9_skills_gap_analysis |-> SkillsGapAnalysis,
     query_10_overall_program_effectiveness |-> ProgramEffectiveness]

-----------------------------------------------------------------------------
(* Connections and exceptions *)

SqliteErrors == {"sqlite3.OperationalError"}

\* operations that read through pandas.read_sql_query, which wraps the
\* driver's error in pandas.errors.DatabaseError
PandasOps ==
    {"get_eligible_students", "execute_custom_query",
     "query_1_top_placement_ready_students"} \cup DOMAIN InsightQueries

\* what executing SQL against a store without the tables raises
NoTableError(op) ==
    IF op \in PandasOps THEN "pandas.DatabaseError" ELSE "sqlite3.OperationalError"

\* get_connection: except sqlite3.Error as e: self.logger.error(...); raise
ConnectionLog(exc) == IF exc \in SqliteErrors THEN <<"Database error">> ELSE <<>>

\* a close at the end of the with block only, with no finally
AfterCloseNoFinally(conns, exc) == IF exc = "none" THEN conns - 1 ELSE conns

\* get_connection: finally: if conn: conn.close()
AfterClose(conns, exc) == conns - 1

\* a handler of the driver's errors only: except sqlite3.Error as e
CatchesSqliteError(op, exc) == exc \in SqliteErrors

\* the operation's own handler: except Exception as e
Catches(op, exc) == TRUE

ErrorMessage(op) ==
    CASE op = "test_connection" -> "Database connection failed"
      [] op = "get_database_summary" -> "Error getting database summary"
      [] op = "get_eligible_students" -> "Error getting eligible students"
      [] op = "get_filter_options" -> "Error getting filter options"
      [] op = "get_student_details" -> "Error getting student details"
      [] op = "get_placement_analytics" -> "Error getting placement analytics"
      [] OTHER -> "Error executing custom query"

\* what the operation's handler returns
EmptyResult(op) ==
    CASE op = "test_connection" -> [kind |-> "bool", ok |-> FALSE]
      [] op \in {"get_database_summary", "get_filter_options",
                 "get_student_details", "get_placement_analytics"} ->
            [kind |-> "mapping", map |-> <<>>]
      [] OTHER -> [kind |-> "table", rows |-> <<>>]

NoResult == [kind |-> "none"]

\* the operation from the end of its with block to its return
Complete(op, o) ==
    IF o.exc = "none"
    THEN [result |-> o.value, raised |-> FALSE, log |-> o.log]
    ELSE IF Catches(op, o.exc)
    THEN [result |-> EmptyResult(op), raised |-> FALSE,
          log |-> o.log \o ConnectionLog(o.exc) \o <<ErrorMessage(op)>>]
    ELSE [result |-> NoResult, raised |-> TRUE,
          log |-> o.log \o ConnectionLog(o.exc)]

\* the outcomes of the body of the operation's with block
Body(c) ==
    IF c.op = "test_connection" THEN { TestConnection }
    ELSE IF store = "no_tables"
    THEN { [exc |-> NoTableError(c.op), log |-> <<>>, value |-> NoResult] }
    ELSE CASE c.op = "get_eligible_students" ->
                { [exc |-> "none", log |-> <<>>,
                   value |-> [kind |-> "table", rows |-> q]]
                  : q \in EligibleStudents(c.arg) }
           [] c.op = "query_1_top_placement_ready_students" ->
                { [exc |-> "none", log |-> <<>>,
                   value |-> [kind |-> "table", rows |-> q]]
                  : q \in TopPlacementReady(c.arg) }
           [] c.op = "get_database_summary" -> { DatabaseSummary }
           [] c.op = "get_filter_options" -> { FilterOptions }
           [] c.op = "get_student_details" -> StudentDetails(c.arg)
           [] c.op = "get_placement_analytics" -> PlacementAnalytics
           [] c.op = "execute_custom_query" ->
                IF c.arg = "SELECT * FROM students"
                THEN { [exc |-> "none", log |-> <<>>,
                        value |-> [kind |-> "table", rows |-> q]]
                       : q \in AllStudents }
                ELSE \* sqlite3 rejects the statement and pandas wraps the error
                     { [exc |-> "pandas.DatabaseError", log |-> <<>>,
                        value |-> NoResult] }
           [] OTHER ->
                { [exc |-> "none", log |-> <<>>,
                   value |-> [kind |-> "table", rows |-> q]]
                  : q \in InsightQueries[c.op] }

\* get_student_details deleting the programming rows it has read
StatementEffectDelete(op, t) ==
    IF op = "get_student_details" THEN <<t[1], {}, t[3], t[4]>> ELSE t

\* what the operation's statements leave in the four tables: each is a SELECT
StatementEffect(op, t) == t

-----------------------------------------------------------------------------
(* Inputs *)

DefaultLimit == 10

Limits == (0..MaxLimit) \cup {DefaultLimit}

\* the values the filter page's controls take when they are not left at
\* "All", 0 or empty
FilterValues ==
    [min_problems_solved |-> {30},
     min_project_score |-> {60},
     min_soft_skills_avg |-> {60},
     min_mock_interview |-> {50},
     min_internships |-> {1},
     placement_status |-> { [type |-> "list", value |-> <<"Ready", "Placed">>],
                            [type |-> "list", value |-> <<"Placed">>] },
     course_batch |-> {"DS_2023_A"},
     city |-> {"Mumbai"},
     programming_language |-> {"Python", "SQL"}]

CriteriaKeys == DOMAIN FilterValues

\* the controls' defaults: sliders 30/60/60/50, one internship, Ready or Placed
DefaultKeys ==
    {"min_problems_solved", "min_project_score", "min_soft_skills_avg",
     "min_mock_interview", "min_internships", "placement_status"}

KeySets ==
    { K \in SUBSET CriteriaKeys : Cardinality(K) <= 1 }
    \cup { DefaultKeys, CriteriaKeys,
           {"programming_language", "min_problems_solved"},
           {"programming_language", "min_project_score"} }

RECURSIVE MappingsOver(_)
MappingsOver(K) ==
    IF K = {} THEN { <<>> }
    ELSE LET k == CHOOSE x \in K : TRUE
         IN { [x \in (DOMAIN f) \cup {k} |-> IF x = k THEN v ELSE f[x]]
              : f \in MappingsOver(K \ {k}), v \in FilterValues[k] }

\* show_eligibility_filter: the criteria dictionary built from the controls
FilterPageCriteria == UNION { MappingsOver(K) : K \in KeySets }

-----------------------------------------------------------------------------
(* Actions *)

\* with self.get_connection() as conn: up to the yield
Enter(c) ==
    /\ pc = "idle"
    /\ call' = c
    /\ IF store = "unreachable"
       THEN \* sqlite3.connect raises; conn is still None, nothing to close
            LET done == Complete(c.op, [exc |-> "sqlite3.OperationalError",
                                        log |-> <<>>, value |-> NoResult])
            IN /\ result' = done.result
               /\ raised' = done.raised
               /\ log' = done.log
               /\ UNCHANGED <<pc, open_conns>>
       ELSE /\ pc' = "connected"
            /\ open_conns' = open_conns + 1
            /\ result' = NoResult
            /\ raised' = FALSE
            /\ log' = <<>>
    /\ UNCHANGED <<tables, store, session>>

test_connection == Enter([op |-> "test_connection", arg |-> 0])

get_database_summary == Enter([op |-> "get_database_summary", arg |-> 0])

get_eligible_students ==
    \E criteria \in FilterPageCriteria :
        Enter([op |-> "get_eligible_students", arg |-> criteria])

execute_custom_query ==
    \E query \in CustomQueries :
        Enter([op |-> "execute_custom_query", arg |-> query])

get_filter_options == Enter([op |-> "get_filter_options", arg |-> 0])

get_placement_analytics == Enter([op |-> "get_placement_analytics", arg |-> 0])

get_student_details ==
    \E student_id \in 1..(MaxStudents + 1) :
        Enter([op |-> "get_student_details", arg |-> student_id])

query_1_top_placement_ready_students ==
    \E limit \in Limits :
        Enter([op |-> "query_1_top_placement_ready_students", arg |-> limit])

query_2_programming_performance_by_batch ==
    Enter([op |-> "query_2_programming_performance_by_batch", arg |-> 0])

query_3_soft_skills_distribution_analysis ==
    Enter([op |-> "query_3_soft_skills_distribution_analysis", arg |-> 0])

query_4_placement_success_by_location ==
    Enter([op |-> "query_4_placement_success_by_location", arg |-> 0])

query_5_company_wise_hiring_analysis ==
    Enter([op |-> "query_5_company_wise_hiring_analysis", arg |-> 0])

query_6_programming_language_impact_on_placement ==
    Enter([op |-> "query_6_programming_language_impact_on_placement", arg |-> 0])

query_7_internship_impact_on_placement ==
    Enter([op |-> "query_7_internship_impact_on_placement", arg |-> 0])

query_8_students_needing_improvement ==
    Enter([op |-> "query_8_students_needing_improvement", arg |-> 0])

query_9_skills_gap_analysis ==
    Enter([op |-> "query_9_skills_gap_analysis", arg |-> 0])

query_10_overall_program_effectiveness ==
    Enter([op |-> "query_10_overall_program_effectiveness", arg |-> 0])

\* the body of the with block, the close of the connection and the return
Run ==
    /\ pc = "connected"
    /\ \E o \in Body(call) :
          LET done == Complete(call.op, o)
          IN /\ result' = done.result
             /\ raised' = done.raised
             /\ log' = done.log
             /\ open_conns' = AfterClose(open_conns, o.exc)
    /\ students' = StatementEffect(call.op, tables)[1]
    /\ programming' = StatementEffect(call.op, tables)[2]
    /\ soft_skills' = StatementEffect(call.op, tables)[3]
    /\ placements' = StatementEffect(call.op, tables)[4]
    /\ pc' = "idle"
    /\ UNCHANGED <<store, call, session>>

Init ==
    /\ \E d \in Datasets :
          /\ students = StudentsOf(d)
          /\ programming = ProgrammingOf(d)
          /\ soft_skills = SoftSkillsOf(d)
          /\ placements = PlacementsOf(d)
          /\ store \in IF d = <<>> THEN {"ok", "no_tables", "unreachable"} ELSE {"ok"}
    /\ pc = "idle"
    /\ call = [op |-> "none", arg |-> 0]
    /\ open_conns = 0
    /\ result = NoResult
    /\ raised = FALSE
    /\ log = <<>>
    /\ NoSession

Next ==
    \/ test_connection
    \/ get_database_summary
    \/ get_eligible_students
    \/ execute_custom_query
    \/ get_filter_options
    \/ get_student_details
    \/ get_placement_analytics
    \/ query_1_top_placement_ready_students
    \/ query_2_programming_performance_by_batch
    \/ query_3_soft_skills_distribution_analysis
    \/ query_4_placement_success_by_location
    \/ query_5_company_wise_hiring_analysis
    \/ query_6_programming_language_impact_on_placement
    \/ query_7_internship_impact_on_placement
    \/ query_8_students_needing_improvement
    \/ query_9_skills_gap_analysis
    \/ query_10_overall_program_effectiveness
    \/ Run

Spec == Init /\ [][Next]_vars

-----------------------------------------------------------------------------
(* The same operations over other datasets.  Each family below varies the  *)
(* columns one query reads, where Profiles varies one column at a time.    *)

\* the four tables hold the dataset d
Loaded(d) ==
    /\ students = StudentsOf(d)
    /\ programming = ProgrammingOf(d)
    /\ soft_skills = SoftSkillsOf(d)
    /\ placements = PlacementsOf(d)

\* no operation has been called yet
Idle ==
    /\ pc = "idle"
    /\ call = [op |-> "none", arg |-> 0]
    /\ open_conns = 0
    /\ result = NoResult
    /\ raised = FALSE
    /\ log = <<>>
    /\ NoSession

\* Students that query 8 reads: every combination of the columns of its CASE
\* and of its ORDER BY, and one student the WHERE leaves out.
MaxCounselled == 2

ImprovementProfiles ==
    { BaseProfile }
    \cup { [BaseProfile EXCEPT !.placement_status = st,
                               !.mock_interview_score = iv,
                               !.progs = g, !.skills = k,
                               !.internships_completed = n]
           : st \in {"Not Ready", "In Progress"}, iv \in {45, 55},
             g \in {<<>>, <<Py(20, 70)>>, <<Py(40, 70)>>},
             k \in {<<50, 50, 50, 50, 50, 50>>, <<80, 70, 90, 60, 75, 85>>},
             n \in {0, 2} }

ImprovementDatasets ==
    UNION { [1..n -> ImprovementProfiles] : n \in 0..MaxCounselled }

ImprovementInit ==
    /\ \E d \in ImprovementDatasets : Loaded(d)
    /\ store = "ok"
    /\ Idle

ImprovementNext ==
    \/ query_8_students_needing_improvement
    \/ Run

ImprovementSpec == ImprovementInit /\ [][ImprovementNext]_vars

\* Students that query 9 reads: placed students with a package on each side
\* of the two thresholds, with one or two programming records, and one
\* student who is not placed.  A company of the generator's middle tier pays
\* 400000 to 1200000.
MaxPlaced == 3

PackageProfiles ==
    { BaseProfile }
    \cup { [BaseProfile EXCEPT !.placement_status = "Placed",
                               !.company_name = "Zoho",
                               !.placement_package = a, !.progs = g]
           : a \in {499999, 500000, 999999, 1000000},
             g \in {<<Py(40, 70)>>, <<Py(40, 50), Sql(20, 70)>>} }

PackageDatasets == UNION { [1..n -> PackageProfiles] : n \in 0..MaxPlaced }

PackageInit ==
    /\ \E d \in PackageDatasets : Loaded(d)
    /\ store = "ok"
    /\ Idle

PackageNext ==
    \/ query_9_skills_gap_analysis
    \/ Run

PackageSpec == PackageInit /\ [][PackageNext]_vars

\* Students that query 4 reads: enough of them for a city to reach the
\* HAVING threshold, placed with a high package or not placed.
MaxEnrolled == 6

LocationProfiles ==
    { [BaseProfile EXCEPT !.city = c] : c \in {"Mumbai", "Delhi"} }
    \cup { [BaseProfile EXCEPT !.city = c, !.placement_status = "Placed",
                               !.company_name = "Zoho",
                               !.placement_package = 1000000]
           : c \in {"Mumbai", "Delhi"} }

LocationDatasets == UNION { [1..n -> LocationProfiles] : n \in 0..MaxEnrolled }

LocationInit ==
    /\ \E d \in LocationDatasets : Loaded(d)
    /\ store = "ok"
    /\ Idle

LocationNext ==
    \/ query_4_placement_success_by_location
    \/ Run

LocationSpec == LocationInit /\ [][LocationNext]_vars

\* Students that the LEFT JOIN of the student-scoped queries reads: of each
\* status, with a programming record or with none.
MaxJoined == 2

OuterJoinProfiles ==
    { [BaseProfile EXCEPT !.placement_status = st, !.progs = g]
      : st \in {"Ready", "Not Ready", "In Progress"},
        g \in {<<>>, <<Py(40, 70)>>} }
    \cup { [BaseProfile EXCEPT !.placement_status = "Placed",
                               !.company_name = "TCS",
                               !.placement_package = 400000, !.progs = g]
           : g \in {<<>>, <<Py(40, 70)>>} }

OuterJoinDatasets == UNION { [1..n -> OuterJoinProfiles] : n \in 0..MaxJoined }

OuterJoinInit ==
    /\ \E d \in OuterJoinDatasets : Loaded(d)
    /\ store = "ok"
    /\ Idle

OuterJoinNext ==
    \/ get_eligible_students
    \/ query_1_top_placement_ready_students
    \/ query_8_students_needing_improvement
    \/ Run

OuterJoinSpec == OuterJoinInit /\ [][OuterJoinNext]_vars

\* Students that query 6 groups by language: with one record, with records
\* in two languages, and with two records in the same language (the
\* programming table has no key over student_id and language).
MaxUsers == 2

LanguageProfiles ==
    { [BaseProfile EXCEPT !.placement_status = pl[1], !.company_name = pl[2],
                          !.placement_package = pl[3], !.progs = g]
      : pl \in {<<"Ready", NoText, NULL>>, <<"Placed", "TCS", 400000>>},
        g \in {<<Py(40, 70)>>, <<Sql(40, 70)>>, <<Py(40, 70), Py(20, 50)>>,
               <<Py(40, 50), Sql(20, 70)>>} }

LanguageDatasets == UNION { [1..n -> LanguageProfiles] : n \in 0..MaxUsers }

LanguageInit ==
    /\ \E d \in LanguageDatasets : Loaded(d)
    /\ store = "ok"
    /\ Idle

LanguageNext ==
    \/ query_6_programming_language_impact_on_placement
    \/ Run

LanguageSpec == LanguageInit /\ [][LanguageNext]_vars

\* Students that query 10 ranks batches and companies over: of either batch,
\* Ready or placed with one of two companies.
MaxSurveyed == 4

EffectivenessProfiles ==
    { [BaseProfile EXCEPT !.course_batch = b, !.placement_status = pl[1],
                          !.company_name = pl[2], !.placement_package = pl[3]]
      : b \in {"DS_2023_A", "DS_2024_A"},
        pl \in {<<"Ready", NoText, NULL>>, <<"Placed", "TCS", 400000>>,
                <<"Placed", "Zoho", 1000000>>} }

EffectivenessDatasets ==
    UNION { [1..n -> EffectivenessProfiles] : n \in 0..MaxSurveyed }

EffectivenessInit ==
    /\ \E d \in EffectivenessDatasets : Loaded(d)
    /\ store = "ok"
    /\ Idle

EffectivenessNext ==
    \/ query_10_overall_program_effectiveness
    \/ Run

EffectivenessSpec == EffectivenessInit /\ [][EffectivenessNext]_vars

-----------------------------------------------------------------------------
(* get_eligible_students called with any criteria mapping, not only those  *)
(* the filter page builds: falsy values, None, a status given as a string  *)
(* and a status outside the enumeration.                                    *)

\* The students of the store searched.
MaxSearched == 2

SearchedProfiles ==
    { [BaseProfile EXCEPT !.placement_status = st, !.progs = g]
      : st \in {"Ready", "Not Ready"}, g \in {<<>>, <<Py(40, 70)>>} }
    \cup { [BaseProfile EXCEPT !.placement_status = "Placed",
                               !.company_name = "TCS",
                               !.placement_package = 400000, !.progs = g]
           : g \in {<<>>, <<Py(20, 70)>>} }

SearchedDatasets == UNION { [1..n -> SearchedProfiles] : n \in 0..MaxSearched }

\* a status criterion: a string, a list of strings, or None
Status(type, value) == [type |-> type, value |-> value]

\* the values a caller may give each criterion: falsy ones, None, and one
\* that selects
AnyValues ==
    [course_batch |-> {"", "DS_2023_A"},
     city |-> {"", NoText, "Mumbai"},
     placement_status |-> { Status("str", "Placed"), Status("list", <<"Placed">>),
                            Status("str", "Hired"), Status("list", <<"Hired">>),
                            Status("list", <<"Ready", "Placed">>),
                            Status("str", ""), Status("list", <<>>),
                            Status("NoneType", <<>>) },
     min_problems_solved |-> {0, NULL, 30},
     min_project_score |-> {0, 60},
     min_soft_skills_avg |-> {0, 60},
     min_mock_interview |-> {0, 50},
     min_internships |-> {0, 1},
     programming_language |-> {"", "Python"}]

\* the criteria that select, all supplied together
AllSelecting ==
    [course_batch |-> {"DS_2023_A"},
     city |-> {"Mumbai"},
     placement_status |-> AnyValues.placement_status,
     min_problems_solved |-> {30},
     min_project_score |-> {60},
     min_soft_skills_avg |-> {60},
     min_mock_interview |-> {50},
     min_internships |-> {1},
     programming_language |-> {"Python"}]

\* the mappings with the keys K, each key with one of its values
RECURSIVE MappingsOf(_, _)
MappingsOf(K, values) ==
    IF K = {} THEN { <<>> }
    ELSE LET k == CHOOSE x \in K : TRUE
         IN { [x \in (DOMAIN f) \cup {k} |-> IF x = k THEN v ELSE f[x]]
              : f \in MappingsOf(K \ {k}, values), v \in values[k] }

AnyCriteria ==
    UNION { MappingsOf(K, AnyValues) :
              K \in { X \in SUBSET CriteriaKeys : Cardinality(X) <= 2 } }
    \cup MappingsOf(CriteriaKeys, AllSelecting)

\* one search of each store: a search leaves the store as it found it
get_eligible_students_of_any_criteria ==
    /\ call.op = "none"
    /\ \E criteria \in AnyCriteria :
          Enter([op |-> "get_eligible_students", arg |-> criteria])

SearchInit ==
    /\ \E d \in SearchedDatasets : Loaded(d)
    /\ store = "ok"
    /\ Idle

SearchNext ==
    \/ get_eligible_students_of_any_criteria
    \/ Run

SearchSpec == SearchInit /\ [][SearchNext]_vars

-----------------------------------------------------------------------------
(* Stores where a student's soft_skills or placements row is missing, for  *)
(* get_student_details.                                                     *)

\* The students of the store looked up.
MaxDetailed == 2

DetailedProfiles ==
    { BaseProfile,
      [BaseProfile EXCEPT !.progs = <<>>],
      [BaseProfile EXCEPT !.progs = <<Py(40, 50), Sql(20, 70)>>] }

DetailedDatasets == UNION { [1..n -> DetailedProfiles] : n \in 0..MaxDetailed }

\* the store of a dataset after rows of soft_skills and placements were deleted
DetailInit ==
    /\ \E d \in DetailedDatasets :
          /\ students = StudentsOf(d)
          /\ programming = ProgrammingOf(d)
          /\ soft_skills \in SUBSET SoftSkillsOf(d)
          /\ placements \in SUBSET PlacementsOf(d)
    /\ store = "ok"
    /\ Idle

DetailNext ==
    \/ get_student_details
    \/ Run

DetailSpec == DetailInit /\ [][DetailNext]_vars

-----------------------------------------------------------------------------
(* StudentDataGenerator (data_generator.py): the generate_* functions.  A  *)
(* random.randint(lo, hi) is drawn from the two ends of its range, and the *)
(* lists of batches, cities, languages and companies are cut to a few of   *)
(* their members, one company of each package tier.                        *)

course_batches == <<"DS_2023_A", "DS_2024_A">>
cities == <<"Mumbai", "Delhi">>
programming_languages == <<"Python", "SQL", "R">>
companies == <<"TCS", "Microsoft", "Zoho">>
placement_statuses == <<"Ready", "Not Ready", "Placed", "In Progress">>

\* the number of student ids passed to a generate_* function, and
\* num_languages, the length of a student's sample of languages
MaxIds == 1
MaxSampled == 2

\* random.randint(range[1], range[2])
Ends(range) == { range[1], range[2] }

Min(a, b) == IF a < b THEN a ELSE b
Max(a, b) == IF a > b THEN a ELSE b

\* the score left as computed
Unclamped(x) == x

\* max(0, min(100, x))
Clamp(x) == Max(0, Min(100, x))

ProblemsSolvedRange(language) ==
    IF language = "Python" THEN <<15, 150>>
    ELSE IF language = "SQL" THEN <<10, 80>>
    ELSE <<5, 60>>

BaseScoreRange(language) ==
    IF language = "Python" THEN <<60, 95>>
    ELSE IF language = "SQL" THEN <<55, 90>>
    ELSE <<50, 85>>

\* latest_project_score = base_score + random.randint(-10, 15)
ProjectVariation == <<-10, 15>>

\* the draws of one language: problems_solved and base_score from the same end
\* of their ranges, and the variation of the project score
LanguageDraws == [level : {1, 2}, variation : Ends(ProjectVariation)]

\* random.sample(self.programming_languages, num_languages) with the draws of
\* each language sampled
ProgrammingSamples ==
    UNION { [L -> LanguageDraws] :
              L \in { K \in SUBSET { programming_languages[i] :
                                       i \in DOMAIN programming_languages } :
                        Cardinality(K) \in 1..MaxSampled } }

\* the entries of one student, in the order of programming_languages
ProgrammingEntries(student_id, sample) ==
    LET entry(language) ==
          [language |-> language,
           problems_solved |->
               ProblemsSolvedRange(language)[sample[language].level],
           latest_project_score |->
               Clamp(BaseScoreRange(language)[sample[language].level]
                       + sample[language].variation),
           student_id |-> student_id]
        sampled == SelectSeq(programming_languages, LAMBDA l : l \in DOMAIN sample)
    IN [i \in DOMAIN sampled |-> entry(sampled[i])]

\* base_performance = random.randint(40, 90); variation = 15
SkillBaseRange == <<40, 90>>
SkillVariation == 15

SoftSkillsDraws ==
    [variation : [1..6 -> Ends(<<-SkillVariation, SkillVariation>>)],
     base : Ends(SkillBaseRange)]

SoftSkillsEntry(student_id, draw) ==
    [student_id |-> student_id,
     communication |-> Clamp(draw.base + draw.variation[1]),
     teamwork |-> Clamp(draw.base + draw.variation[2]),
     presentation |-> Clamp(draw.base + draw.variation[3]),
     leadership |-> Clamp(draw.base + draw.variation[4]),
     critical_thinking |-> Clamp(draw.base + draw.variation[5]),
     interpersonal_skills |-> Clamp(draw.base + draw.variation[6])]

InterviewRange == <<35, 95>>
InternshipsRange == <<0, 4>>

\* the weights of random.choices(self.placement_statuses, weights=...)
StatusWeights(interview, internships) ==
    IF interview >= 80 /\ internships >= 1 THEN <<20, 5, 60, 15>>
    ELSE IF interview >= 60 THEN <<40, 20, 25, 15>>
    ELSE <<20, 60, 10, 10>>

\* random.choices(population, weights)[0]
Choices(population, weights) ==
    { population[i] : i \in { j \in DOMAIN population : weights[j] > 0 } }

PackageRange(company) ==
    IF company \in {"Microsoft", "Amazon", "Google"} THEN <<800000, 2500000>>
    ELSE IF company \in {"TCS", "Infosys", "Wipro", "Cognizant"}
    THEN <<300000, 800000>>
    ELSE <<400000, 1200000>>

\* the draws of one placement record; company and package are drawn for a
\* placed student only and are 1 (the first company, the low end) otherwise
PlacementDraws ==
    { w \in [interview : Ends(InterviewRange), internships : Ends(InternshipsRange),
             company : DOMAIN companies,
             status : { placement_statuses[i] : i \in DOMAIN placement_statuses },
             package : {1, 2}] :
        /\ w.status \in Choices(placement_statuses,
                                StatusWeights(w.interview, w.internships))
        /\ w.status # "Placed" => (w.company = 1 /\ w.package = 1) }

\* a record that carries a company and a package whatever the status
PlacementsEntryAlwaysOffer(student_id, draw) ==
    [placement_status |-> draw.status,
     mock_interview_score |-> draw.interview,
     internships_completed |-> draw.internships,
     company_name |-> companies[draw.company],
     placement_package |-> PackageRange(companies[draw.company])[draw.package],
     student_id |-> student_id]

PlacementsEntry(student_id, draw) ==
    [placement_status |-> draw.status,
     mock_interview_score |-> draw.interview,
     internships_completed |-> draw.internships,
     company_name |->
         IF draw.status = "Placed" THEN companies[draw.company] ELSE NoText,
     placement_package |->
         IF draw.status = "Placed"
         THEN PackageRange(companies[draw.company])[draw.package] ELSE NULL,
     student_id |-> student_id]

RECURSIVE Flatten(_)
Flatten(lists) ==
    IF lists = <<>> THEN <<>> ELSE Head(lists) \o Flatten(Tail(lists))

\* the three functions over the list of ids, given the draws of each id
GenerateProgramming(student_ids, draw) ==
    Flatten([i \in DOMAIN student_ids |->
               ProgrammingEntries(student_ids[i], draw[i])])

GenerateSoftSkills(student_ids, draw) ==
    [i \in DOMAIN student_ids |-> SoftSkillsEntry(student_ids[i], draw[i])]

GeneratePlacements(student_ids, draw) ==
    [i \in DOMAIN student_ids |-> PlacementsEntry(student_ids[i], draw[i])]

\* the lists of ids the functions are called with
IdLists == { [i \in 1..n |-> i] : n \in 0..MaxIds }

\* a call of a generate_* function: it returns a list and touches no table.
\* The functions read nothing but their argument, so a behaviour is one call
\* (the guard call.op = "none" of the three actions).
Generated(op, student_ids, entries) ==
    /\ pc = "idle"
    /\ call' = [op |-> op, arg |-> student_ids]
    /\ result' = [rows |-> entries, kind |-> "list"]
    /\ raised' = FALSE
    /\ log' = <<>>
    /\ UNCHANGED <<tables, store, pc, open_conns, session>>

generate_programming_data ==
    /\ call.op = "none"
    /\ \E student_ids \in IdLists :
          \E draw \in [DOMAIN student_ids -> ProgrammingSamples] :
              Generated("generate_programming_data", student_ids,
                        GenerateProgramming(student_ids, draw))

generate_soft_skills_data ==
    /\ call.op = "none"
    /\ \E student_ids \in IdLists :
          \E draw \in [DOMAIN student_ids -> SoftSkillsDraws] :
              Generated("generate_soft_skills_data", student_ids,
                        GenerateSoftSkills(student_ids, draw))

generate_placements_data ==
    /\ call.op = "none"
    /\ \E student_ids \in IdLists :
          \E draw \in [DOMAIN student_ids -> PlacementDraws] :
              Generated("generate_placements_data", student_ids,
                        GeneratePlacements(student_ids, draw))

GenerateInit ==
    /\ Loaded(<<>>)
    /\ store = "ok"
    /\ Idle

GenerateNext ==
    \/ generate_programming_data
    \/ generate_soft_skills_data
    \/ generate_placements_data

GenerateSpec == GenerateInit /\ [][GenerateNext]_vars

-----------------------------------------------------------------------------
(* StudentDataGenerator: main(), run any number of times on one store.     *)
(* pc is the position in main(): "created" after                           *)
(* create_database_connection, "inserted" after insert_data_to_database,   *)
(* "closing" before close_connection; open_conns counts self.conn, and 0   *)
(* during a run means self.conn is None.                                   *)

\* num_students of a run, and the students the store holds at most
MaxNew == 1
MaxGenerated == 2

\* the draws of the runs: the batch and the city of a new student, and a few
\* of the draws of each generate_* function
StudentDraws ==
    [course_batch : { course_batches[1] },
     city : { cities[i] : i \in DOMAIN cities }]

RunProgrammingSamples ==
    { sample \in ProgrammingSamples :
        /\ DOMAIN sample = {"Python"}
        /\ sample["Python"].variation = ProjectVariation[2] }

RunSoftSkillsDraws ==
    { draw \in SoftSkillsDraws : \A i \in 1..6 : draw.variation[i] = SkillVariation }

RunPlacementDraws ==
    { draw \in PlacementDraws :
        /\ draw.interview = InterviewRange[2]
        /\ draw.internships = InternshipsRange[2]
        /\ draw.company = 1 /\ draw.package = 1 }

\* sqlite3.connect(self.db_path); self.create_tables(), in try / except Exception
create_database_connection ==
    /\ pc = "idle"
    /\ \E num_students \in 1..MaxNew :
          /\ Cardinality(students) + num_students <= MaxGenerated
          /\ call' = [op |-> "main", arg |-> num_students]
    /\ IF store = "unreachable"
       THEN \* connect raises, the error is printed and self.conn stays None
            UNCHANGED <<store, open_conns>>
       ELSE \* CREATE TABLE IF NOT EXISTS leaves the rows of existing tables
            /\ store' = "ok"
            /\ open_conns' = open_conns + 1
    /\ pc' = "created"
    /\ result' = NoResult
    /\ raised' = FALSE
    /\ log' = <<>>
    /\ UNCHANGED <<tables, session>>

\* SELECT student_id FROM students after the new students are inserted: the
\* ids of all the students of the store
AllStudentIds(n) == [i \in 1..(Cardinality(students) + n) |-> i]

\* the rows INSERTed, with the ids AUTOINCREMENT gives them
NewStudents(n, draw) ==
    { [student_id |-> Cardinality(students) + i,
       course_batch |-> draw[i].course_batch, city |-> draw[i].city]
      : i \in 1..n }

NewProgramming(entries) ==
    { [programming_id |-> Cardinality(programming) + i,
       student_id |-> entries[i].student_id,
       language |-> entries[i].language,
       problems_solved |-> entries[i].problems_solved,
       latest_project_score |-> entries[i].latest_project_score]
      : i \in DOMAIN entries }

NewSoftSkills(entries) ==
    { [soft_skill_id |-> Cardinality(soft_skills) + i,
       student_id |-> entries[i].student_id,
       communication |-> entries[i].communication,
       teamwork |-> entries[i].teamwork,
       presentation |-> entries[i].presentation,
       leadership |-> entries[i].leadership,
       critical_thinking |-> entries[i].critical_thinking,
       interpersonal_skills |-> entries[i].interpersonal_skills]
      : i \in DOMAIN entries }

NewPlacements(entries) ==
    { [placement_id |-> Cardinality(placements) + i,
       student_id |-> entries[i].student_id,
       mock_interview_score |-> entries[i].mock_interview_score,
       internships_completed |-> entries[i].internships_completed,
       placement_status |-> entries[i].placement_status,
       company_name |-> entries[i].company_name,
       placement_package |-> entries[i].placement_package]
      : i \in DOMAIN entries }

\* the exception main() catches and prints
Failed(exc) ==
    /\ result' = [kind |-> "error", exc |-> exc]
    /\ pc' = "closing"
    /\ UNCHANGED <<tables, store, call, open_conns, raised, log, session>>

\* insert_data_to_database, called by main() after create_database_connection
insert_data_to_database ==
    /\ pc = "created"
    /\ \/ \* self.conn is None
          /\ open_conns = 0
          /\ Failed("AttributeError")
       \/ \* a generated email is already taken (email TEXT UNIQUE): the
          \* INSERT raises and the rows not committed are lost on close
          /\ open_conns > 0
          /\ Cardinality(students) + call.arg >= 2
          /\ Failed("sqlite3.IntegrityError")
       \/ /\ open_conns > 0
          /\ \E sd \in [1..call.arg -> StudentDraws] :
                LET student_ids == AllStudentIds(call.arg)
                IN \E pd \in [DOMAIN student_ids -> RunProgrammingSamples],
                      kd \in [DOMAIN student_ids -> RunSoftSkillsDraws],
                      ld \in [DOMAIN student_ids -> RunPlacementDraws] :
                      /\ students' = students \cup NewStudents(call.arg, sd)
                      /\ programming' = programming \cup
                            NewProgramming(GenerateProgramming(student_ids, pd))
                      /\ soft_skills' = soft_skills \cup
                            NewSoftSkills(GenerateSoftSkills(student_ids, kd))
                      /\ placements' = placements \cup
                            NewPlacements(GeneratePlacements(student_ids, ld))
          /\ pc' = "inserted"
          /\ UNCHANGED <<store, call, open_conns, result, raised, log, session>>

\* generate_data_summary: the counts it prints
generate_data_summary ==
    /\ pc = "inserted"
    /\ result' =
          [kind |-> "summary",
           total_students |-> Cardinality(students),
           programming_records |-> Cardinality(programming),
           placed |-> Cardinality({ p \in placements :
                                      /\ p.placement_status = "Placed"
                                      /\ p.company_name # NoText })]
    /\ pc' = "closing"
    /\ UNCHANGED <<tables, store, call, open_conns, raised, log, session>>

\* close_connection, in the finally of main(): if self.conn: self.conn.close()
close_connection ==
    /\ pc = "closing"
    /\ open_conns' = IF open_conns > 0 THEN open_conns - 1 ELSE open_conns
    /\ pc' = "idle"
    /\ UNCHANGED <<tables, store, call, result, raised, log, session>>

\* a store that does not exist yet, in a directory that exists or not
GeneratorInit ==
    /\ Loaded(<<>>)
    /\ store \in {"no_tables", "unreachable"}
    /\ Idle

GeneratorNext ==
    \/ create_database_connection
    \/ insert_data_to_database
    \/ generate_data_summary
    \/ close_connection

GeneratorSpec == GeneratorInit /\ [][GeneratorNext]_vars

-----------------------------------------------------------------------------
(* The Streamlit app (app.py).  A run of main() is one execution of the     *)
(* script; what the functions under @st.cache_data returned is kept for as  *)
(* long as the process lives.                                               *)

\* The students of the store the app reads.
MaxVisible == 1

AppProfiles ==
    { BaseProfile,
      [BaseProfile EXCEPT !.placement_status = "Placed", !.company_name = "TCS",
                          !.placement_package = 400000] }

AppDatasets == UNION { [1..n -> AppProfiles] : n \in 0..MaxVisible }

\* st.sidebar.selectbox("Select Page", [...])
Pages ==
    {"Student Eligibility Filter", "Placement Analytics", "Top Performers",
     "Insights Dashboard"}

\* a call of an operation of DatabaseManager or PlacementInsights, from its
\* start to its return, on the store as it is: what it returns and logs
Outcomes(c) ==
    IF store = "unreachable"
    THEN { Complete(c.op, [log |-> <<>>, value |-> NoResult,
                           exc |-> "sqlite3.OperationalError"]) }
    ELSE { Complete(c.op, o) : o \in Body(c) }

Operation(op) == [op |-> op, arg |-> 0]

\* the record of an executed operation: what it found and what it returned
Ran(op, value) == [store |-> store, value |-> value, op |-> op]

\* the function is called and its body runs whatever the cache holds
UncachedCalls(name, c) ==
    { [log |-> d.log, value |-> d.result, ran |-> <<Ran(c.op, d.result)>>]
      : d \in Outcomes(c) }

\* @st.cache_data def name(): return db_manager.op(): the body runs when the
\* cache holds no value for the function
CachedCalls(name, c) ==
    IF name \in DOMAIN cache
    THEN { [log |-> <<>>, value |-> cache[name], ran |-> <<>>] }
    ELSE { [log |-> d.log, value |-> d.result, ran |-> <<Ran(c.op, d.result)>>]
           : d \in Outcomes(c) }

\* the cache after the function has returned the value
Kept(held, name, value) ==
    [n \in DOMAIN held \cup {name} |-> IF n \in DOMAIN held THEN held[n] ELSE value]

\* load_database_manager() and load_placement_insights() build their objects
\* without opening the store
Loaders ==
    Kept(Kept(cache, "load_database_manager",
              [kind |-> "object", class |-> "DatabaseManager"]),
         "load_placement_insights",
         [kind |-> "object", class |-> "PlacementInsights"])

\* what a page has put on the screen: its name and the value its cached
\* function gave it
Rendered(page, value) == [value |-> value, kind |-> "page", page |-> page]

\* main() without the return after a failed test_connection
mainWithoutReturn ==
    /\ pc = "idle"
    /\ \E page \in Pages : call' = [op |-> "main", arg |-> page]
    /\ \E d \in Outcomes(Operation("test_connection")) :
          /\ executed' = <<Ran("test_connection", d.result)>>
          /\ log' = d.log
          /\ raised' = d.raised
          /\ pc' = "page"
          /\ result' = NoResult
    /\ cache' = Loaders
    /\ UNCHANGED <<tables, store, open_conns>>

\* main() up to the choice of the page: st.error and return when
\* test_connection returns False
main ==
    /\ pc = "idle"
    /\ \E page \in Pages : call' = [op |-> "main", arg |-> page]
    /\ \E d \in Outcomes(Operation("test_connection")) :
          /\ executed' = <<Ran("test_connection", d.result)>>
          /\ log' = d.log
          /\ raised' = d.raised
          /\ IF d.result.ok
             THEN /\ pc' = "page"
                  /\ result' = NoResult
             ELSE /\ pc' = "idle"
                  /\ result' = [kind |-> "error",
                                message |-> "Database connection failed"]
    /\ cache' = Loaders
    /\ UNCHANGED <<tables, store, open_conns>>

\* show_eligibility_filter: the options of the controls, and the search when
\* the button is pressed
show_eligibility_filter ==
    /\ pc = "page" /\ call.arg = "Student Eligibility Filter"
    /\ \E f \in CachedCalls("get_filter_options", Operation("get_filter_options")) :
          /\ cache' = Kept(cache, "get_filter_options", f.value)
          /\ result' = Rendered(call.arg, f.value)
          /\ \/ \* st.button(...) is False
                /\ executed' = executed \o f.ran
                /\ log' = f.log
             \/ \E criteria \in FilterPageCriteria :
                   \E d \in Outcomes([op |-> "get_eligible_students",
                                      arg |-> criteria]) :
                       /\ executed' = executed \o f.ran
                                        \o <<Ran("get_eligible_students", d.result)>>
                       /\ log' = f.log \o d.log
    /\ pc' = "idle"
    /\ UNCHANGED <<tables, store, call, open_conns, raised>>

\* show_placement_analytics: queries 5, 4, 6 and 7
show_placement_analytics ==
    /\ pc = "page" /\ call.arg = "Placement Analytics"
    /\ \E company \in Outcomes(Operation("query_5_company_wise_hiring_analysis")),
          location \in Outcomes(Operation("query_4_placement_success_by_location")),
          language \in Outcomes(Operation(
                          "query_6_programming_language_impact_on_placement")),
          internship \in Outcomes(Operation(
                            "query_7_internship_impact_on_placement")) :
          /\ executed' = executed \o
                <<Ran("query_5_company_wise_hiring_analysis", company.result),
                  Ran("query_4_placement_success_by_location", location.result),
                  Ran("query_6_programming_language_impact_on_placement",
                      language.result),
                  Ran("query_7_internship_impact_on_placement", internship.result)>>
          /\ log' = company.log \o location.log \o language.log \o internship.log
    /\ result' = Rendered(call.arg, NoResult)
    /\ pc' = "idle"
    /\ UNCHANGED <<tables, store, call, open_conns, raised, cache>>

\* show_top_performers: query 1 with a limit of 20, and query 2
show_top_performers ==
    /\ pc = "page" /\ call.arg = "Top Performers"
    /\ \E top \in Outcomes([op |-> "query_1_top_placement_ready_students",
                            arg |-> 20]),
          batch \in Outcomes(Operation("query_2_programming_performance_by_batch")) :
          /\ executed' = executed \o
                <<Ran("query_1_top_placement_ready_students", top.result),
                  Ran("query_2_programming_performance_by_batch", batch.result)>>
          /\ log' = top.log \o batch.log
    /\ result' = Rendered(call.arg, NoResult)
    /\ pc' = "idle"
    /\ UNCHANGED <<tables, store, call, open_conns, raised, cache>>

\* show_insights_dashboard: the summary, then queries 8 and 9
show_insights_dashboard ==
    /\ pc = "page" /\ call.arg = "Insights Dashboard"
    /\ \E s \in CachedCalls("get_database_summary",
                            Operation("get_database_summary")),
          improvement \in Outcomes(Operation("query_8_students_needing_improvement")),
          gap \in Outcomes(Operation("query_9_skills_gap_analysis")) :
          /\ cache' = Kept(cache, "get_database_summary", s.value)
          /\ result' = Rendered(call.arg, s.value)
          /\ executed' = executed \o s.ran \o
                <<Ran("query_8_students_needing_improvement", improvement.result),
                  Ran("query_9_skills_gap_analysis", gap.result)>>
          /\ log' = s.log \o improvement.log \o gap.log
    /\ pc' = "idle"
    /\ UNCHANGED <<tables, store, call, open_conns, raised>>

\* outside the app: the generator writes the store, or the file is taken away
StoreWritten ==
    /\ \E d \in AppDatasets :
          /\ students' = StudentsOf(d)
          /\ programming' = ProgrammingOf(d)
          /\ soft_skills' = SoftSkillsOf(d)
          /\ placements' = PlacementsOf(d)
    /\ store' = "ok"
    /\ UNCHANGED <<pc, call, open_conns, result, raised, log, session>>

StoreRemoved ==
    /\ store = "ok"
    /\ store' \in {"no_tables", "unreachable"}
    /\ students' = {} /\ programming' = {} /\ soft_skills' = {} /\ placements' = {}
    /\ UNCHANGED <<pc, call, open_conns, result, raised, log, session>>

AppInit ==
    /\ \E d \in AppDatasets :
          /\ Loaded(d)
          /\ store \in IF d = <<>> THEN {"ok", "no_tables", "unreachable"} ELSE {"ok"}
    /\ Idle

AppNext ==
    \/ main
    \/ show_eligibility_filter
    \/ show_placement_analytics
    \/ show_top_performers
    \/ show_insights_dashboard
    \/ StoreWritten
    \/ StoreRemoved

AppSpec == AppInit /\ [][AppNext]_vars

-----------------------------------------------------------------------------
(* Properties *)

Done(op) == pc = "idle" /\ call.op = op

ProgrammingRecords(student_id) == { g \in programming : g.student_id = student_id }

SoftSkillsSum(student_id) ==
    SoftSum(CHOOSE k \in soft_skills : k.student_id = student_id)

\* the student of a returned row meets every criterion of the mapping
Satisfies(row, criteria) ==
    LET progs == ProgrammingRecords(row.student_id)
    IN /\ "min_problems_solved" \in DOMAIN criteria =>
             MaxOf({ g.problems_solved : g \in progs })
                >= criteria["min_problems_solved"]
       /\ "min_project_score" \in DOMAIN criteria =>
             MaxOf({ g.latest_project_score : g \in progs })
                >= criteria["min_project_score"]
       /\ "min_soft_skills_avg" \in DOMAIN criteria =>
             SoftSkillsSum(row.student_id) >= 6 * criteria["min_soft_skills_avg"]
       /\ "min_mock_interview" \in DOMAIN criteria =>
             row.mock_interview_score >= criteria["min_mock_interview"]
       /\ "min_internships" \in DOMAIN criteria =>
             row.internships_completed >= criteria["min_internships"]
       /\ "programming_language" \in DOMAIN criteria =>
             criteria["programming_language"] \in { g.language : g \in progs }
       /\ "placement_status" \in DOMAIN criteria =>
             \E i \in DOMAIN criteria["placement_status"].value :
                 row.placement_status = criteria["placement_status"].value[i]
       /\ "course_batch" \in DOMAIN criteria =>
             row.course_batch = criteria["course_batch"]
       /\ "city" \in DOMAIN criteria => row.city = criteria["city"]

\* C1: every student that get_eligible_students returns for a criteria mapping
\* built by the filter page satisfies each criterion of the mapping (best
\* project score >= min_project_score, interview score >= min_mock_interview,
\* internships >= min_internships, soft-skills mean >= min_soft_skills_avg,
\* status among those supplied, batch and city as supplied).
C1_ReturnedStudentsSatisfyCriteria ==
    Done("get_eligible_students") =>
        \A i \in DOMAIN result.rows : Satisfies(result.rows[i], call.arg)

\* C2: with an empty criteria mapping get_eligible_students returns exactly
\* one row for every student of the dataset, and a student without programming
\* records is among them with null programming fields.
C2_EmptyCriteriaReturnEveryStudent ==
    (Done("get_eligible_students") /\ store = "ok" /\ DOMAIN call.arg = {}) =>
        /\ Len(result.rows) = Cardinality(students)
        /\ \A s \in students :
              \E i \in DOMAIN result.rows :
                 /\ result.rows[i].student_id = s.student_id
                 /\ ProgrammingRecords(s.student_id) = {} =>
                       /\ result.rows[i].max_problems_solved = NULL
                       /\ result.rows[i].best_project_score = NULL
                       /\ result.rows[i].programming_languages = {}

C2_Witness ==
    /\ Done("get_eligible_students") /\ store = "ok" /\ DOMAIN call.arg = {}
    /\ Cardinality(students) = 2
    /\ Len(result.rows) = 2
    /\ \E i \in DOMAIN result.rows :
          /\ ProgrammingRecords(result.rows[i].student_id) = {}
          /\ result.rows[i].max_problems_solved = NULL

\* C3: whatever the criteria, each returned row's max_problems_solved,
\* best_project_score and programming_languages are the maximum problems
\* solved, the maximum project score and the set of languages over all of the
\* student's programming records.
C3_SummaryFieldsCoverAllRecords ==
    Done("get_eligible_students") =>
        \A i \in DOMAIN result.rows :
            LET progs == ProgrammingRecords(result.rows[i].student_id)
            IN /\ result.rows[i].max_problems_solved
                    = MaxOf({ g.problems_solved : g \in progs })
               /\ result.rows[i].best_project_score
                    = MaxOf({ g.latest_project_score : g \in progs })
               /\ result.rows[i].programming_languages
                    = { g.language : g \in progs }

\* a >= b for triples in lexicographic order; a null (NULL) second component
\* is below every number
LexAtLeast(a, b) ==
    \/ a[1] > b[1]
    \/ a[1] = b[1] /\ a[2] > b[2]
    \/ a[1] = b[1] /\ a[2] = b[2] /\ a[3] >= b[3]

EligibleSortKey(row) ==
    <<row.avg_soft_skills, row.max_problems_solved, row.mock_interview_score>>

\* C4: in the rows get_eligible_students returns, the triple (soft-skills
\* average, max problems solved, interview score) never increases from a row
\* to the next, in lexicographic order.
C4_RowsOrderedByThreeKeys ==
    Done("get_eligible_students") =>
        \A i \in 1..(Len(result.rows) - 1) :
            LexAtLeast(EligibleSortKey(result.rows[i]),
                       EligibleSortKey(result.rows[i + 1]))

\* two rows that tie on the first two keys and are told apart by the third
C4_Witness ==
    /\ Done("get_eligible_students")
    /\ Len(result.rows) = 2
    /\ result.rows[1].avg_soft_skills = result.rows[2].avg_soft_skills
    /\ result.rows[1].max_problems_solved = result.rows[2].max_problems_solved
    /\ result.rows[1].mock_interview_score > result.rows[2].mock_interview_score

\* the empty value the claim names for each operation
EmptyValue(op) ==
    IF op = "test_connection" THEN [kind |-> "bool", ok |-> FALSE]
    ELSE IF op \in {"get_database_summary", "get_filter_options",
                    "get_student_details", "get_placement_analytics"}
    THEN [kind |-> "mapping", map |-> <<>>]
    ELSE \* get_eligible_students, and execute_custom_query under the ten queries
         [kind |-> "table", rows |-> <<>>]

\* the store cannot be opened, has no tables, or the operation's query fails
Fails ==
    \/ store # "ok"
    \/ call.op = "get_database_summary" /\ programming = {}
    \/ call.op = "execute_custom_query" /\ call.arg = "SELEC * FROM students"
    \/ /\ call.op = "get_student_details"
       /\ \A s \in students : s.student_id # call.arg

\* C5: no operation of DatabaseManager lets an exception reach its caller;
\* when the store is unreachable, lacks the tables or the query fails, the
\* operation returns its empty value (empty table, empty mapping, False) and
\* writes an error to the log.
C5_FailuresReturnEmptyAndAreLogged ==
    (pc = "idle" /\ call.op # "none") =>
        /\ ~raised
        /\ Fails => (result = EmptyValue(call.op) /\ log # <<>>)

\* the query of get_eligible_students failed on a store without tables
C5_Witness ==
    /\ Done("get_eligible_students") /\ store = "no_tables"
    /\ ~raised
    /\ result.kind = "table" /\ result.rows = <<>>
    /\ log = <<"Error getting eligible students">>

\* C6: at most one connection is open at any time, and none is open once the
\* operation that opened it has returned, whether its body completed or raised.
C6_ConnectionsClosedOnReturn ==
    /\ open_conns <= 1
    /\ pc = "idle" => open_conns = 0
    /\ pc = "connected" => open_conns = 1

\* get_database_summary raised a TypeError inside its with block
C6_Witness ==
    /\ Done("get_database_summary") /\ store = "ok" /\ programming = {}
    /\ log = <<"Error getting database summary">>
    /\ open_conns = 0

\* C7: no call of the query operations changes the contents of the four tables.
C7_TablesUnchanged == [][tables' = tables]_vars

C7_Witness ==
    /\ Done("query_1_top_placement_ready_students")
    /\ Len(result.rows) = 2
    /\ Cardinality(students) = 2 /\ Cardinality(placements) = 2
    /\ Cardinality(soft_skills) = 2 /\ programming # {}

ReadyOrPlaced ==
    { s \in students :
        \E p \in placements : /\ p.student_id = s.student_id
                              /\ p.placement_status \in {"Ready", "Placed"} }

\* C8: for a limit >= 0, query_1 returns min(limit, N) rows, N the number of
\* students whose status is Ready or Placed, and each row has one of the two.
C8_LimitTruncatesReadyOrPlaced ==
    (Done("query_1_top_placement_ready_students") /\ store = "ok") =>
        /\ Len(result.rows) =
              IF call.arg < Cardinality(ReadyOrPlaced)
              THEN call.arg ELSE Cardinality(ReadyOrPlaced)
        /\ \A i \in DOMAIN result.rows :
              result.rows[i].placement_status \in {"Ready", "Placed"}

\* the limit cut one of two qualifying students
C8_Witness ==
    /\ Done("query_1_top_placement_ready_students") /\ store = "ok"
    /\ call.arg = 1
    /\ Cardinality(ReadyOrPlaced) = 2
    /\ Len(result.rows) = 1

\* 20 * (0.4 * interview + 0.3 * soft-skills mean + 0.3 * best project score) of
\* a student; NULL when the student has no programming record
Composite20(student_id) ==
    LET p == CHOOSE x \in placements : x.student_id = student_id
        best == MaxOf({ g.latest_project_score :
                          g \in ProgrammingRecords(student_id) })
    IN IF best = NULL THEN NULL
       ELSE 8 * p.mock_interview_score + SoftSkillsSum(student_id) + 6 * best

\* C9: the rows of query_1 are in non-increasing order of composite score, and
\* no Ready or Placed student left out by the limit has a composite score
\* strictly greater than that of a returned student.
C9_RankedByCompositeScore ==
    (Done("query_1_top_placement_ready_students") /\ store = "ok") =>
        /\ \A i, j \in DOMAIN result.rows :
              i < j => Composite20(result.rows[i].student_id)
                          >= Composite20(result.rows[j].student_id)
        /\ \A s \in ReadyOrPlaced :
              (\A i \in DOMAIN result.rows :
                  result.rows[i].student_id # s.student_id)
              => \A i \in DOMAIN result.rows :
                    ~(Composite20(s.student_id)
                         > Composite20(result.rows[i].student_id))

NeedingImprovement ==
    { s \in students :
        \E p \in placements : /\ p.student_id = s.student_id
                              /\ p.placement_status \in {"Not Ready", "In Progress"} }

\* the area the rules give a student, taken in their order: interview score
\* below 50, most problems solved below 30, soft-skills mean below 60, no
\* internship
AreaByRules(student_id) ==
    LET p == CHOOSE x \in placements : x.student_id = student_id
        solved == { g.problems_solved : g \in ProgrammingRecords(student_id) }
    IN IF p.mock_interview_score < 50 THEN "Interview Skills"
       ELSE IF solved # {} /\ \A n \in solved : n < 30
            THEN "Programming Practice"
       ELSE IF SoftSkillsSum(student_id) < 6 * 60 THEN "Soft Skills"
       ELSE IF p.internships_completed = 0 THEN "Practical Experience"
       ELSE "General Improvement"

\* C11: query_8 returns one row for each student whose status is Not Ready or
\* In Progress and for no other; the row's area is the one of the first rule
\* that matches, and an interview score below 50 gives Interview Skills
\* whatever the other fields are.
C11_AreaIsFirstMatchingRule ==
    Done("query_8_students_needing_improvement") =>
        /\ Len(result.rows) = Cardinality(NeedingImprovement)
        /\ { result.rows[i].student_id : i \in DOMAIN result.rows }
              = { s.student_id : s \in NeedingImprovement }
        /\ \A i \in DOMAIN result.rows :
              /\ result.rows[i].primary_improvement_area
                    = AreaByRules(result.rows[i].student_id)
              /\ result.rows[i].mock_interview_score < 50 =>
                    result.rows[i].primary_improvement_area = "Interview Skills"

\* a student whom all four rules match is tagged by the first, beside a
\* student whom the second rule tags and one that the query leaves out
C11_Witness ==
    /\ Done("query_8_students_needing_improvement")
    /\ Cardinality(students) = 2
    /\ Len(result.rows) = 1
    /\ result.rows[1].mock_interview_score = 45
    /\ result.rows[1].max_problems_solved = 20
    /\ result.rows[1].avg_soft_skills = 500
    /\ result.rows[1].internships_completed = 0
    /\ result.rows[1].primary_improvement_area = "Interview Skills"

\* C12: in the rows of query_8 no Not Ready row comes before an In Progress
\* row, and of two rows of the same status the earlier has the lower or
\* equal interview score.
C12_InProgressFirstThenByScore ==
    Done("query_8_students_needing_improvement") =>
        \A i, j \in DOMAIN result.rows :
            i < j =>
              /\ ~(/\ result.rows[i].placement_status = "Not Ready"
                   /\ result.rows[j].placement_status = "In Progress")
              /\ result.rows[i].placement_status = result.rows[j].placement_status
                    => result.rows[i].mock_interview_score
                          <= result.rows[j].mock_interview_score

\* an In Progress student listed before a Not Ready student of lower score
C12_Witness ==
    /\ Done("query_8_students_needing_improvement")
    /\ Len(result.rows) = 2
    /\ result.rows[1].placement_status = "In Progress"
    /\ result.rows[1].mock_interview_score = 55
    /\ result.rows[2].placement_status = "Not Ready"
    /\ result.rows[2].mock_interview_score = 45

\* the package amounts of the placed students
PlacedAmounts ==
    { p.placement_package : p \in { x \in placements : x.placement_status = "Placed" } }

\* the tier of an amount: 1 High (>= 1,000,000), 2 Medium (>= 500,000 and
\* < 1,000,000), 3 Entry (< 500,000)
TierOf(amount) ==
    IF amount >= 1000000 THEN 1 ELSE IF amount >= 500000 THEN 2 ELSE 3

\* the label of each tier in the rows of query_9
TierLabel == <<"High Package (10L+)", "Medium Package (5-10L)", "Entry Package (<5L)">>

\* the label of each tier as the claim writes it
TierLabelClaimed == <<"High (10L+)", "Medium (5-10L)", "Entry (<5L)">>

\* the rows are one per tier that has a placed student, labelled by labels,
\* in the order High, Medium, Entry
TiersReported(labels) ==
    /\ { result.rows[i].package_category : i \in DOMAIN result.rows }
          = { labels[TierOf(a)] : a \in PlacedAmounts }
    /\ \A i, j \in DOMAIN result.rows :
          i < j => \E m, n \in 1..3 : /\ m < n
                                      /\ result.rows[i].package_category = labels[m]
                                      /\ result.rows[j].package_category = labels[n]

\* C13 as amended: query_9 puts every placed student in the tier of the
\* package amount (>= 1,000,000 High, >= 500,000 and < 1,000,000 Medium,
\* < 500,000 Entry), the tiers are labelled "High Package (10L+)", "Medium
\* Package (5-10L)" and "Entry Package (<5L)", and the tiers present come in
\* the order High, Medium, Entry.
C13_TiersByAmountInFixedOrder ==
    Done("query_9_skills_gap_analysis") => TiersReported(TierLabel)

\* C13 as stated: the same with the labels "High (10L+)", "Medium (5-10L)"
\* and "Entry (<5L)".
C13_TiersLabelledAsStated ==
    Done("query_9_skills_gap_analysis") => TiersReported(TierLabelClaimed)

\* packages of 999,999, 1,000,000 and 499,999 reported as three tiers
C13_Witness ==
    /\ Done("query_9_skills_gap_analysis")
    /\ PlacedAmounts = {999999, 1000000, 499999}
    /\ Len(result.rows) = 3
    /\ result.rows[1].package_category = "High Package (10L+)"
    /\ result.rows[2].package_category = "Medium Package (5-10L)"
    /\ result.rows[3].package_category = "Entry Package (<5L)"

\* the students of a city
StudentsIn(city) == { s \in students : s.city = city }

\* C14: query_4 returns one row for each city that has at least 5 students
\* and no row for a city that has 4 or fewer, whatever the status and the
\* packages of its students.
C14_CitiesOfFiveOrMore ==
    Done("query_4_placement_success_by_location") =>
        /\ { result.rows[i].city : i \in DOMAIN result.rows }
              = { s.city : s \in { x \in students :
                                     Cardinality(StudentsIn(x.city)) >= 5 } }
        /\ Len(result.rows)
              = Cardinality({ result.rows[i].city : i \in DOMAIN result.rows })

\* a city of five students is reported and a city whose only student is
\* placed with a high package is not
C14_Witness ==
    /\ Done("query_4_placement_success_by_location")
    /\ Cardinality(StudentsIn("Mumbai")) = 5
    /\ Cardinality(StudentsIn("Delhi")) = 1
    /\ \E p \in placements :
          /\ p.placement_status = "Placed" /\ p.placement_package = 1000000
          /\ \E s \in StudentsIn("Delhi") : s.student_id = p.student_id
    /\ Len(result.rows) = 1
    /\ result.rows[1].city = "Mumbai"

\* C15: whenever a run of the generator has ended, every student has exactly
\* one soft_skills row and exactly one placements row, however many runs
\* there have been on the store.
C15_OneProfileAndOneRecordPerStudent ==
    (pc = "idle" /\ call.op = "main") =>
        \A s \in students :
            /\ Cardinality({ k \in soft_skills : k.student_id = s.student_id }) = 1
            /\ Cardinality({ p \in placements : p.student_id = s.student_id }) = 1

\* C16: a placement record that generate_placements_data produces has a
\* company and a package when its status is Placed, and has neither when its
\* status is anything else.
C16_CompanyAndPackageIffPlaced ==
    Done("generate_placements_data") =>
        \A i \in DOMAIN result.rows :
            IF result.rows[i].placement_status = "Placed"
            THEN /\ result.rows[i].company_name # NoText
                 /\ result.rows[i].placement_package # NULL
            ELSE /\ result.rows[i].company_name = NoText
                 /\ result.rows[i].placement_package = NULL

\* a record of a student who is Ready although the interview score and the
\* internships are at the top of their ranges
C16_Witness ==
    /\ Done("generate_placements_data")
    /\ Len(result.rows) = 1
    /\ result.rows[1].placement_status = "Ready"
    /\ result.rows[1].mock_interview_score = 95
    /\ result.rows[1].internships_completed = 4
    /\ result.rows[1].company_name = NoText

\* C17: the six soft-skill scores, latest_project_score and
\* mock_interview_score of every entry the generator produces are in 0..100.
C17_ScoresWithinZeroAndHundred ==
    /\ Done("generate_programming_data") =>
          \A i \in DOMAIN result.rows :
              result.rows[i].latest_project_score \in 0..100
    /\ Done("generate_soft_skills_data") =>
          \A i \in DOMAIN result.rows :
              /\ result.rows[i].communication \in 0..100
              /\ result.rows[i].teamwork \in 0..100
              /\ result.rows[i].presentation \in 0..100
              /\ result.rows[i].leadership \in 0..100
              /\ result.rows[i].critical_thinking \in 0..100
              /\ result.rows[i].interpersonal_skills \in 0..100
    /\ Done("generate_placements_data") =>
          \A i \in DOMAIN result.rows :
              result.rows[i].mock_interview_score \in 0..100

\* a base performance of 90 with a variation of +15 written as 100, beside a
\* variation of -15 written as 75
C17_Witness ==
    /\ Done("generate_soft_skills_data")
    /\ Len(result.rows) = 1
    /\ result.rows[1].communication = 100
    /\ result.rows[1].teamwork = 75

\* total / 6 to one decimal, in tenths: the tenth nearest to it, which is the
\* one below total / 6 or the one above (10 * total is even, so none lies
\* halfway between two tenths)
SixthToOneDecimal(total) ==
    LET below == (10 * total) \div 6
    IN CHOOSE t \in {below, below + 1} : 6 * t - 10 * total \in -3..3

\* C18: the avg_soft_skills of a row of get_eligible_students is the sum of
\* the student's six scores divided by 6, to one decimal, however many
\* programming records the student has; the scores (80, 70, 90, 60, 75, 85)
\* give 76.7.
C18_SoftSkillsMeanToOneDecimal ==
    (Done("get_eligible_students") /\ store = "ok") =>
        \A i \in DOMAIN result.rows :
            /\ result.rows[i].avg_soft_skills
                  = SixthToOneDecimal(SoftSkillsSum(result.rows[i].student_id))
            /\ (\E k \in soft_skills :
                   /\ k.student_id = result.rows[i].student_id
                   /\ <<k.communication, k.teamwork, k.presentation, k.leadership,
                        k.critical_thinking, k.interpersonal_skills>>
                         = <<80, 70, 90, 60, 75, 85>>)
               => result.rows[i].avg_soft_skills = 767

\* a student with two programming records, both kept by the criteria, and
\* the scores (80, 70, 90, 60, 75, 85), beside a student with no record
C18_Witness ==
    /\ Done("get_eligible_students") /\ store = "ok"
    /\ Len(result.rows) = 2
    /\ \E i, j \in DOMAIN result.rows :
          /\ Cardinality(result.rows[i].programming_languages) = 2
          /\ SoftSkillsSum(result.rows[i].student_id) = 460
          /\ result.rows[i].avg_soft_skills = 767
          /\ ProgrammingRecords(result.rows[j].student_id) = {}
          /\ result.rows[j].avg_soft_skills = 767

\* the criteria that read the programming records
ProgrammingCriteria == {"min_problems_solved", "min_project_score", "programming_language"}

\* the student meets the criteria of the mapping that read no programming
\* record
Meets(student_id, criteria) ==
    LET p == CHOOSE x \in placements : x.student_id = student_id
        s == CHOOSE x \in students : x.student_id = student_id
    IN /\ "min_soft_skills_avg" \in DOMAIN criteria =>
             SoftSkillsSum(student_id) >= 6 * criteria["min_soft_skills_avg"]
       /\ "min_mock_interview" \in DOMAIN criteria =>
             p.mock_interview_score >= criteria["min_mock_interview"]
       /\ "min_internships" \in DOMAIN criteria =>
             p.internships_completed >= criteria["min_internships"]
       /\ "placement_status" \in DOMAIN criteria =>
             \E i \in DOMAIN criteria["placement_status"].value :
                 p.placement_status = criteria["placement_status"].value[i]
       /\ "course_batch" \in DOMAIN criteria =>
             s.course_batch = criteria["course_batch"]
       /\ "city" \in DOMAIN criteria => s.city = criteria["city"]

\* the students of the set S that have no programming record
WithoutRecords(S) == { s \in S : ProgrammingRecords(s.student_id) = {} }

\* the rows hold one row of the student, with no programming metric
ListedWithNulls(student_id) ==
    /\ Cardinality({ i \in DOMAIN result.rows :
                       result.rows[i].student_id = student_id }) = 1
    /\ \A i \in DOMAIN result.rows :
          result.rows[i].student_id = student_id =>
             /\ result.rows[i].max_problems_solved = NULL
             /\ result.rows[i].best_project_score = NULL

\* C19: a student without programming records is listed, with null
\* programming metrics, by get_eligible_students when the criteria read no
\* programming record and the student meets them, by query_1 when the
\* student is Ready or Placed and the limit is at least the number of such
\* students, and by query_8 when the student is Not Ready or In Progress.
C19_StudentsWithoutRecordsAreListed ==
    /\ (/\ Done("get_eligible_students")
        /\ DOMAIN call.arg \cap ProgrammingCriteria = {}) =>
          \A s \in WithoutRecords(students) :
              Meets(s.student_id, call.arg) => ListedWithNulls(s.student_id)
    /\ (/\ Done("query_1_top_placement_ready_students")
        /\ call.arg >= Cardinality(ReadyOrPlaced)) =>
          \A s \in WithoutRecords(ReadyOrPlaced) : ListedWithNulls(s.student_id)
    /\ Done("query_8_students_needing_improvement") =>
          \A s \in WithoutRecords(NeedingImprovement) :
              ListedWithNulls(s.student_id)

\* query_8 lists an In Progress student without records beside a Not Ready
\* student that has one
C19_Witness ==
    /\ Done("query_8_students_needing_improvement")
    /\ Len(result.rows) = 2
    /\ result.rows[1].placement_status = "In Progress"
    /\ result.rows[1].max_problems_solved = NULL
    /\ result.rows[1].best_project_score = NULL
    /\ result.rows[2].max_problems_solved = 40

\* the students that have a record in the language
UsersOf(language) ==
    { s \in students : \E g \in programming : /\ g.student_id = s.student_id
                                              /\ g.language = language }

\* C20: in each row of query 6, placement_rate_percent is 100 times the
\* number of placed students that have a record in the language over the
\* number of students that have one, each student counted once, and so it
\* lies between 0 and 100.
C20_RateOfDistinctPlacedStudents ==
    Done("query_6_programming_language_impact_on_placement") =>
        \A i \in DOMAIN result.rows :
            LET users == UsersOf(result.rows[i].language)
                placed == { s \in users :
                              \E p \in placements :
                                  /\ p.student_id = s.student_id
                                  /\ p.placement_status = "Placed" }
            IN /\ result.rows[i].placement_rate_percent
                    = RatePercent(Cardinality(placed), Cardinality(users))
               /\ result.rows[i].placement_rate_percent \in 0..1000

\* the students of a batch, and those of them that are placed
EnrolledIn(batch) == { s \in students : s.course_batch = batch }

PlacedOf(S) ==
    { s \in S : \E p \in placements : /\ p.student_id = s.student_id
                                      /\ p.placement_status = "Placed" }

\* the students a company has placed
HiredBy(company) ==
    { s \in students : \E p \in placements : /\ p.student_id = s.student_id
                                             /\ p.placement_status = "Placed"
                                             /\ p.company_name = company }

\* C21: over a dataset that is not empty, query 10 returns three rows, the
\* whole-program aggregate, the best batch and the top company, in this
\* order; no batch has a higher share of placed students than the batch
\* named, and no company has placed more students than the company named.
C21_ThreeRowsBestBatchTopCompany ==
    (/\ Done("query_10_overall_program_effectiveness")
     /\ store = "ok" /\ students # {}) =>
        /\ result.kind = "table"
        /\ Len(result.rows) = 3
        /\ result.rows[1].metric_category = "Overall Program Performance"
        /\ result.rows[1].total_students = Cardinality(students)
        /\ result.rows[2].metric_category = "Best Performing Batch"
        /\ result.rows[3].metric_category = "Top Hiring Company"
        /\ LET best == result.rows[2].total_hiring_companies
           IN /\ EnrolledIn(best) # {}
              /\ \A s \in students :
                    Cardinality(PlacedOf(EnrolledIn(best)))
                        * Cardinality(EnrolledIn(s.course_batch))
                      >= Cardinality(PlacedOf(EnrolledIn(s.course_batch)))
                           * Cardinality(EnrolledIn(best))
        /\ LET top == result.rows[3].total_hiring_companies
           IN IF PlacedOf(students) = {} THEN top = NoText
              ELSE /\ HiredBy(top) # {}
                   /\ \A p \in placements :
                         Cardinality(HiredBy(top))
                           >= Cardinality(HiredBy(p.company_name))

\* the batch of one student, who is placed, is named rather than the batch of
\* three students of whom two are placed; the company that placed two
\* students is named rather than the company that placed one
C21_Witness ==
    /\ Done("query_10_overall_program_effectiveness")
    /\ Len(result.rows) = 3
    /\ Cardinality(EnrolledIn("DS_2023_A")) = 1
    /\ Cardinality(EnrolledIn("DS_2024_A")) = 3
    /\ Cardinality(PlacedOf(EnrolledIn("DS_2024_A"))) = 2
    /\ Cardinality(HiredBy("Zoho")) = 2
    /\ Cardinality(HiredBy("TCS")) = 1
    /\ result.rows[2].total_hiring_companies = "DS_2023_A"
    /\ result.rows[3].total_hiring_companies = "Zoho"

\* the placement rows of a status
PlacementsOfStatus(status) == { p \in placements : p.placement_status = status }

\* the mapping counts every student and every placement row by its status
SummaryCounts(map) ==
    /\ {"total_students", "placement_distribution"} \subseteq DOMAIN map
    /\ map.total_students = Cardinality(students)
    /\ DOMAIN map.placement_distribution
         = { p.placement_status : p \in placements }
    /\ \A st \in DOMAIN map.placement_distribution :
          map.placement_distribution[st] = Cardinality(PlacementsOfStatus(st))
    /\ SumOver(DOMAIN map.placement_distribution, map.placement_distribution)
         = Cardinality(placements)

\* C22: on a store that has the four tables, the programming table with or
\* without rows, get_database_summary returns a mapping whose total_students
\* is the number of student rows and whose placement_distribution gives for
\* each status the number of its placement rows, the numbers adding up to
\* the number of placement rows.
C22_SummaryCountsOnEveryStoreWithTables ==
    (Done("get_database_summary") /\ store = "ok") =>
        /\ result.kind = "mapping"
        /\ SummaryCounts(result.map)

\* the place of a text value in the ascending order of the text values
PlaceOf(text) == CHOOSE i \in DOMAIN Collation : Collation[i] = text

\* the list holds the values of S, each once, in ascending order
ListsAscending(list, S) ==
    /\ { list[i] : i \in DOMAIN list } = S
    /\ \A i, j \in DOMAIN list : i < j => PlaceOf(list[i]) < PlaceOf(list[j])

\* C23: get_filter_options lists the batches, the cities, the programming
\* languages and the placement statuses present in the tables, each value
\* once and in ascending order, and lists no null among the companies.
C23_OptionsAreDistinctValuesAscending ==
    (Done("get_filter_options") /\ store = "ok") =>
        /\ result.kind = "mapping"
        /\ DOMAIN result.map = {"course_batches", "cities", "programming_languages",
                                "placement_statuses", "companies"}
        /\ ListsAscending(result.map.course_batches,
                          { s.course_batch : s \in students })
        /\ ListsAscending(result.map.cities, { s.city : s \in students })
        /\ ListsAscending(result.map.programming_languages,
                          { g.language : g \in programming })
        /\ ListsAscending(result.map.placement_statuses,
                          { p.placement_status : p \in placements })
        /\ \A i \in DOMAIN result.map.companies :
              result.map.companies[i] # NoText

\* the second student is placed and the first is not: Placed is listed before
\* Ready, and the first student's null company is not listed
C23_Witness ==
    /\ Done("get_filter_options") /\ store = "ok"
    /\ \E p \in placements : p.student_id = 1 /\ p.placement_status = "Ready"
                                              /\ p.company_name = NoText
    /\ \E p \in placements : p.student_id = 2 /\ p.placement_status = "Placed"
    /\ result.map.placement_statuses = <<"Placed", "Ready">>
    /\ result.map.companies = <<"TCS">>

\* the operations of the current run of main() that read the students' data
DataQueries == { i \in 1..Len(executed) : executed[i].op # "test_connection" }

\* C24: in a run of main() a data query is executed only after test_connection
\* has returned True in that run; when test_connection returns False, main has
\* returned with the error shown, no page rendered and nothing else executed;
\* and test_connection returns True exactly when it found the store reachable
\* with its four tables.
C24_QueriesOnlyAfterConnectionTest ==
    /\ \A i \in DataQueries :
          \E j \in 1..(i - 1) :
              executed[j].op = "test_connection" /\ executed[j].value.ok
    /\ \A i \in 1..Len(executed) :
          executed[i].op = "test_connection" =>
              /\ executed[i].value.ok <=> executed[i].store = "ok"
              /\ ~executed[i].value.ok =>
                    /\ Len(executed) = 1
                    /\ pc = "idle"
                    /\ result.kind = "error"

\* the four queries of the analytics page have run after a successful test,
\* the last of them on a store that has been taken away since
C24_Witness ==
    /\ Len(executed) = 5
    /\ executed[1].value.ok
    /\ executed[5].op = "query_7_internship_impact_on_placement"
    /\ executed[5].store = "unreachable"

\* the cached functions of app.py that read the store, each with the page
\* that calls it
CachedReaders ==
    [get_database_summary |-> "Insights Dashboard",
     get_filter_options |-> "Student Eligibility Filter"]

\* C29: in one app process a cached wrapper reads the store only while the
\* cache holds no value for it; from then on the value is kept unchanged and
\* is what the page is given, whatever the store has become since.
C29_CachedWrappersReadStoreOnce ==
    [][\A name \in DOMAIN CachedReaders :
          /\ name \in DOMAIN cache =>
                /\ name \in DOMAIN cache'
                /\ cache'[name] = cache[name]
                /\ \A i \in 1..Len(executed') :
                      executed'[i].op = name =>
                          i <= Len(executed) /\ executed[i] = executed'[i]
          /\ (pc = "page" /\ pc' = "idle" /\ call.arg = CachedReaders[name]) =>
                /\ name \in DOMAIN cache'
                /\ result'.value = cache'[name]]_vars

\* the dashboard has shown the empty mapping kept from the first call without
\* reading the summary again, on a reachable store whose summary is not empty
C29_Witness ==
    /\ "get_database_summary" \in DOMAIN cache
    /\ cache["get_database_summary"] = EmptyResult("get_database_summary")
    /\ store = "ok" /\ programming # {}
    /\ Len(executed) = 3
    /\ \A i \in 1..3 : executed[i].store = "ok" /\ executed[i].op # "get_database_summary"
    /\ result = Rendered("Insights Dashboard", EmptyResult("get_database_summary"))

\* the students of the rows returned
Returned == { result.rows[i].student_id : i \in DOMAIN result.rows }

\* C26: when get_eligible_students is given both programming_language and
\* min_problems_solved, every student returned has one programming record
\* with that language and at least that many problems solved; and when it is
\* given either of the two, no student without programming records is
\* returned.
C26_LanguageAndThresholdOnOneRecord ==
    Done("get_eligible_students") =>
        /\ {"programming_language", "min_problems_solved"} \subseteq DOMAIN call.arg =>
              \A id \in Returned :
                  \E g \in ProgrammingRecords(id) :
                      /\ g.language = call.arg["programming_language"]
                      /\ g.problems_solved >= call.arg["min_problems_solved"]
        /\ {"programming_language", "min_problems_solved"} \cap DOMAIN call.arg # {} =>
              \A id \in Returned : ProgrammingRecords(id) # {}

\* asked for SQL with 30 problems: the student with 40 problems in Python and
\* 20 in SQL is left out, the student with 40 in SQL is returned
C26_Witness ==
    /\ Done("get_eligible_students") /\ store = "ok"
    /\ DOMAIN call.arg = {"programming_language", "min_problems_solved"}
    /\ call.arg["programming_language"] = "SQL"
    /\ \E s \in students :
          /\ s.student_id \notin Returned
          /\ { <<g.language, g.problems_solved>> : g \in ProgrammingRecords(s.student_id) }
                = { <<"Python", 40>>, <<"SQL", 20>> }
    /\ \E s \in students :
          /\ s.student_id \in Returned
          /\ { <<g.language, g.problems_solved>> : g \in ProgrammingRecords(s.student_id) }
                = { <<"SQL", 40>> }

\* the criteria with the status S given as the list [S]
AsList(criteria) ==
    [criteria EXCEPT !.placement_status = Status("list", <<@.value>>)]

\* the statuses the generator writes
Statuses == {"Ready", "Not Ready", "Placed", "In Progress"}

\* the search has returned for a criteria mapping whose placement_status is
\* the string S, and what it returns for the list [S] is the same
SameAsOneElementList ==
    /\ result.rows \in EligibleStudents(AsList(call.arg))
    /\ EligibleStudents(call.arg) = EligibleStudents(AsList(call.arg))

\* every status of the criterion is outside the enumeration
OutsideEnumeration(v) ==
    \A i \in DOMAIN StatusList(v) : StatusList(v)[i] \notin Statuses

\* C25 as stated: get_eligible_students given placement_status as a string
\* S returns the rows, in the order, that it returns when given the list [S]
\* with the same other criteria, for every S; and a status outside the
\* enumeration gives no row.
C25_StatusStringIsOneElementList ==
    (/\ Done("get_eligible_students")
     /\ "placement_status" \in DOMAIN call.arg
     /\ call.arg["placement_status"].type = "str") =>
        /\ SameAsOneElementList
        /\ OutsideEnumeration(call.arg["placement_status"]) => result.rows = <<>>

\* C25: get_eligible_students given placement_status as a non-empty string
\* S returns the rows, in the order, that it returns when given the list [S]
\* with the same other criteria; and a non-empty status outside the
\* enumeration, as a string or in a list, gives no row.
C25_NonEmptyStatusStringIsOneElementList ==
    (/\ Done("get_eligible_students")
     /\ "placement_status" \in DOMAIN call.arg
     /\ Truthy("placement_status", call.arg["placement_status"])) =>
        /\ call.arg["placement_status"].type = "str" => SameAsOneElementList
        /\ OutsideEnumeration(call.arg["placement_status"]) => result.rows = <<>>

\* the status 'Placed' given as a string, alone, on a store with a Placed
\* student and a Ready one: the Placed student alone is returned
C25_Witness ==
    /\ Done("get_eligible_students")
    /\ DOMAIN call.arg = {"placement_status"}
    /\ call.arg["placement_status"] = Status("str", "Placed")
    /\ Cardinality(students) = 2
    /\ Len(result.rows) = 1
    /\ result.rows[1].placement_status = "Placed"

\* the criteria without the key k
Without(criteria, k) == [x \in DOMAIN criteria \ {k} |-> criteria[x]]

\* C27: a criterion whose value is falsy (0, '', [], None) is treated by
\* get_eligible_students as if its key were absent: the rows returned are rows
\* it returns for the mapping without the key; with an empty placement_status
\* list alone, students of every status are returned.
C27_FalsyCriterionIsAbsent ==
    Done("get_eligible_students") =>
        /\ \A k \in DOMAIN call.arg :
              ~Truthy(k, call.arg[k]) =>
                 /\ result.rows \in EligibleStudents(Without(call.arg, k))
                 /\ EligibleStudents(call.arg) = EligibleStudents(Without(call.arg, k))
        /\ (/\ DOMAIN call.arg = {"placement_status"}
            /\ call.arg["placement_status"] = Status("list", <<>>)) =>
              Returned = { s.student_id : s \in students }

\* a threshold of 0 problems solved beside the status Placed: the Placed
\* student without programming records is returned
C27_Witness ==
    /\ Done("get_eligible_students")
    /\ DOMAIN call.arg = {"min_problems_solved", "placement_status"}
    /\ call.arg["min_problems_solved"] = 0
    /\ call.arg["placement_status"] = Status("list", <<"Placed">>)
    /\ \E s \in WithoutRecords(students) : s.student_id \in Returned

\* the placed students whose package falls in the tier of the category
PlacedInCategory(category) ==
    { p \in placements : /\ p.placement_status = "Placed"
                         /\ PackageCategory(p.placement_package) = category }

\* C28: in the rows of query_9 the student_count of a tier is the number of
\* distinct placed students whose package is in the tier, and the tier's
\* interview and soft-skill averages count each of these students once,
\* however many programming records a student has.
C28_TierCountsEachStudentOnce ==
    Done("query_9_skills_gap_analysis") =>
        \A i \in DOMAIN result.rows :
            LET P == PlacedInCategory(result.rows[i].package_category)
                K == { k \in soft_skills : \E p \in P : k.student_id = p.student_id }
            IN /\ result.rows[i].student_count = Cardinality(P)
               /\ result.rows[i].avg_mock_interview
                     = AvgRound1(P, [p \in P |-> p.mock_interview_score])
               /\ result.rows[i].avg_communication
                     = AvgRound1(K, [k \in K |-> k.communication])

\* the rows of the table t that belong to the student looked up
RowsOfStudent(t) == { x \in t : x.student_id = call.arg }

\* C30: get_student_details(id) raises nothing; it returns the empty mapping
\* when the student, its soft_skills row or its placements row does not
\* exist, and otherwise the student's fields with 'programming' (all the
\* student's programming rows, possibly none), 'soft_skills' and 'placement'.
C30_DetailsOrEmptyMapping ==
    (Done("get_student_details") /\ store = "ok") =>
        /\ ~raised
        /\ result.kind = "mapping"
        /\ IF \/ RowsOfStudent(students) = {}
              \/ RowsOfStudent(soft_skills) = {}
              \/ RowsOfStudent(placements) = {}
           THEN DOMAIN result.map = {}
           ELSE /\ DOMAIN result.map = {"student_id", "course_batch", "city",
                                        "programming", "soft_skills", "placement"}
                /\ \E s \in RowsOfStudent(students) :
                      /\ result.map.student_id = s.student_id
                      /\ result.map.course_batch = s.course_batch
                      /\ result.map.city = s.city
                /\ result.map.programming = RowsOfStudent(programming)
                /\ result.map.soft_skills \in RowsOfStudent(soft_skills)
                /\ result.map.placement \in RowsOfStudent(placements)

\* the student and its placements row exist, with two programming rows, and
\* the soft_skills row is missing: the empty mapping is returned and logged
C30_Witness ==
    /\ Done("get_student_details") /\ store = "ok"
    /\ RowsOfStudent(students) # {}
    /\ RowsOfStudent(placements) # {}
    /\ Cardinality(RowsOfStudent(programming)) = 2
    /\ RowsOfStudent(soft_skills) = {}
    /\ result = EmptyResult("get_student_details")
    /\ log # <<>>

====
